---------------------------- MODULE Spec2Model ----------------------------
(***************************************************************************)
(* DrivingCoach: the fusion/state layer of the scenario pipeline.          *)
(*                                                                         *)
(*   - ScenarioEvaluator (main.py): the priority-ordered rule table with   *)
(*     its cross-chunk ScenarioState.                                      *)
(*   - EmergencyBrakingSystem (main.py): the per-track threat history and  *)
(*     the warning cooldown.                                               *)
(*   - ScenarioEngine.process_video (main.py): the chunk loop, the signal  *)
(*     counters of a chunk and the list of results, over several videos.   *)
(*   - LaneTracker and detect_lane_change (final_lane_detection.py).       *)
(*   - detect_lane_departure (lane_departure_detection.py).                *)
(*                                                                         *)
(* Distances are integers in tenths of a metre (2.0 m = 20), pixel         *)
(* positions integers in thousandths of a pixel.                           *)
(***************************************************************************)
EXTENDS Integers, Sequences, FiniteSets, TLC

VARIABLES
    state,            \* ScenarioEvaluator.state : ScenarioState
    chunk_id,         \* process_video's chunk counter (the next chunk)
    features,         \* the ChunkFeatures of the last evaluate() call
    scenario_id,      \* the id the last evaluate() call returned
    message,          \* the message the last evaluate() call returned
    off_after_change, \* history: a chunk without blinker followed the
                      \* last lane change (which used a blinker)
    history,          \* EmergencyBrakingSystem.history
    last_warning,     \* EmergencyBrakingSystem.last_warning
    frame_counter,    \* EmergencyBrakingSystem.frame_counter
    current_objects,  \* the argument of the last check() call
    is_danger_detected, \* the value the last check() call returned
    prev_warning,     \* history: per track, the frame of the warning before
                      \* the one last_warning holds
    video,            \* main(): index of the video being processed
    pc,               \* process_video: position in the chunk loop
    chunk_features,   \* process_video: `features` being filled for the chunk
    frames_left,      \* process_video: sampled frames not yet processed
    chunk_l_counts,   \* process_video: frames with the left signal ON
    chunk_r_counts,   \* process_video: frames with the right signal ON
    frame_log,        \* history: per processed frame of the chunk in
                      \* progress, the <<left, right>> result of
                      \* check_signal_status
    results,          \* process_video: the ChunkResult list
    tailgating_frames, \* ScenarioEngine.tailgating_frames
    stop_sustain_frames, \* ScenarioEngine.stop_sustain_frames
    chunk_stop_warning, \* process_video: chunk_stop_warning
    frame_has_close_vehicle, \* process_video: the flag of the last frame
    warning,          \* process_video: `warning` at the end of the last
                      \* frame's iteration
    close_run,        \* history: consecutive frames, up to the last one,
                      \* whose frame_has_close_vehicle was true
    close_run_max,    \* history: the longest such run so far
    audio_loaded,     \* process_video: librosa.load gave the waveform
                      \* (False: it raised and waveform is the empty array)
    left_x,           \* LaneTracker.left_x
    right_x,          \* LaneTracker.right_x
    left_age,         \* LaneTracker.left_age
    right_age,        \* LaneTracker.right_age
    smooth_alpha,     \* LaneTracker.smooth_alpha, in tenths
    threshold,        \* the threshold passed to detect_lane_change
    prev_center,      \* process_video_final: prev_center
    is_changing,      \* the last detect_lane_change call: is_changing
    direction,        \* the last detect_lane_change call: direction
    detected_left,    \* the detected_left of the last update call
    detected_right,   \* the detected_right of the last update call
    raw_left,         \* the scene: where find_lane_positions sees the
    raw_right,        \* left and the right boundary when it sees them
    left_missed,      \* history: consecutive updates without a left
    right_missed,     \* (right) detection
    jumps,            \* history: displacements of the boundaries so far
    changes,          \* history: frames reported as changing since the
                      \* last displacement (or since the first frame)
    detect_done,      \* the single detect_lane_change call has been made
    prev_state,       \* process_video_with_lane_departure: prev_state
    is_departing,     \* the last detect_lane_departure call: is_departing
    departure_direction, \* the last detect_lane_departure call: direction
    left_lane_x,      \* the left_lane_x of the last call
    right_lane_x,     \* the right_lane_x of the last call
    calls,            \* history: detect_lane_departure calls so far
    all_left,         \* history: every call had vehicle_x <= left_lane_x
    all_right,        \* history: every call had vehicle_x >= right_lane_x
    events,           \* history: calls that returned is_departing
    first_event,      \* history: the first call returned is_departing
    request,          \* server: the ScenarioFeatures body of the last request
    response,         \* server: the ScenarioResponse given to it
    monitor_prev_center, \* LaneChangeMonitor.prev_center
    monitor_center,   \* LaneChangeMonitor.process: center of the last call
    monitor_before,   \* history: prev_center when the last call began
    monitor_lane_change, \* LaneChangeMonitor.process: lane_change returned
    monitor_offset,   \* LaneChangeMonitor.process: offset returned
    args,             \* main(): the namespace parse_args returned
    main_pc,          \* main(): position ("parse_args", "videos", "failed")
    evaluated_chunks, \* history: chunks evaluated under args
    args_features,    \* the signal and tailgating features of the last of
                      \* them
    audio_model,      \* server: the global audio_model
    started,          \* server: the startup event has run load_models
    audio_response,   \* server: the answer to the last audio request
    yolo_ebs,         \* test_video_by_chunks: ebs, the
                      \* EmergencyBrakingSystem of the chunk
    yolo_stop_sustain_frames, \* test_video_by_chunks: stop_sustain_frames
    yolo_chunk_stop_warning, \* test_video_by_chunks: chunk_stop_warning
    is_sudden_stop,   \* test_video_by_chunks: is_sudden_stop
    tailgating_frame_counter, \* test_video_by_chunks: the counter
    is_tailgating_confirmed, \* test_video_by_chunks: the flag of the chunk
    yolo_frames_left, \* test_video_by_chunks: results not yet looped over
    yolo_chunk_id,    \* test_video_by_chunks: chunk_id
    yolo_boxes,       \* the boxes of the last frame looped over
    yolo_pc           \* test_video_by_chunks: position in the chunk loop

vars == <<state, chunk_id, features, scenario_id, message, off_after_change,
          history, last_warning, frame_counter, current_objects,
          is_danger_detected, prev_warning,
          video, pc, chunk_features, frames_left, chunk_l_counts,
          chunk_r_counts, frame_log, results,
          tailgating_frames, stop_sustain_frames, chunk_stop_warning,
          frame_has_close_vehicle, warning, close_run, close_run_max,
          audio_loaded,
          left_x, right_x, left_age, right_age, smooth_alpha, threshold,
          prev_center, is_changing, direction, detected_left,
          detected_right, raw_left, raw_right, left_missed, right_missed,
          jumps, changes, detect_done,
          prev_state, is_departing, departure_direction, left_lane_x,
          right_lane_x, calls, all_left, all_right, events, first_event,
          request, response,
          monitor_prev_center, monitor_center, monitor_before,
          monitor_lane_change, monitor_offset,
          args, main_pc, evaluated_chunks, args_features,
          audio_model, started, audio_response,
          yolo_ebs, yolo_stop_sustain_frames, yolo_chunk_stop_warning,
          is_sudden_stop, tailgating_frame_counter, is_tailgating_confirmed,
          yolo_frames_left, yolo_chunk_id, yolo_boxes, yolo_pc>>

evalVars == <<state, chunk_id, features, scenario_id, message, off_after_change>>
ebsVars == <<history, last_warning, frame_counter, current_objects,
             is_danger_detected, prev_warning>>
engineVars == <<video, pc, chunk_features, frames_left, chunk_l_counts,
                chunk_r_counts, frame_log, results,
                tailgating_frames, stop_sustain_frames, chunk_stop_warning,
                frame_has_close_vehicle, warning, close_run, close_run_max,
                audio_loaded>>
\* the engine's variables that the head and the tail of the chunk loop
\* leave alone
counterVars == <<tailgating_frames, stop_sustain_frames,
                 frame_has_close_vehicle, warning, close_run, close_run_max>>
laneVars == <<left_x, right_x, left_age, right_age, smooth_alpha, threshold,
              prev_center, is_changing, direction, detected_left,
              detected_right, raw_left, raw_right, left_missed,
              right_missed, jumps, changes, detect_done>>
departureVars == <<prev_state, is_departing, departure_direction,
                   left_lane_x, right_lane_x, calls, all_left, all_right,
                   events, first_event>>
serverVars == <<request, response, audio_model, started, audio_response>>
monitorVars == <<monitor_prev_center, monitor_center, monitor_before,
                 monitor_lane_change, monitor_offset>>
configVars == <<args, main_pc, evaluated_chunks, args_features>>
yoloVars == <<yolo_ebs, yolo_stop_sustain_frames, yolo_chunk_stop_warning,
              is_sudden_stop, tailgating_frame_counter,
              is_tailgating_confirmed, yolo_frames_left, yolo_chunk_id,
              yolo_boxes, yolo_pc>>

---------------------------------------------------------------------------
(* Bounds of the model                                                     *)

\* chunks processed per video in the scenario specification
MaxChunk == 7
\* largest chunk id of the single-call specification
MaxEvalChunk == 5
\* frames passed to EmergencyBrakingSystem.check
MaxFrame == 34
\* frames a tracked vehicle's measured distance stays the same before it
\* may change
MinDwell == 3
\* displacements of the lane boundaries in one run of the lane tracker
MaxJumps == 1
\* largest age a side of the lane tracker reaches
MaxLaneAge == 17
\* detect_lane_departure calls in one run
MaxCalls == 10
\* chunks of one video
MaxVideoChunks == 2
\* frames sampled from one chunk
SampledFrames == 3
\* chunks of the video that shows an approaching vehicle
MaxSustainChunks == 18
\* frames the approaching vehicle keeps a measured distance
SustainDwell == 6
\* chunks of the video that shows close vehicles
MaxTailgateChunks == 4
\* chunks evaluated under one command line
MaxYoloChunks == 2
YoloDwell == 4
MaxConfigChunks == 2
MaxUntrackedFrame == 5
MaxApproachFrame == 12

---------------------------------------------------------------------------
(* Scenario data model                                                     *)

\* Optional[int] = None, for chunk ids (which start at 1)
None == -1

\* --wiper-repeat-window default
wiper_repeat_window == 3

\* SCENARIO_MESSAGES.get(scenario_id, "정상 운행"); the texts are rendered
\* in English.
NORMAL_MESSAGE == "normal driving"

SCENARIO_MESSAGES ==
    (4 :> "indicator left on after the lane change")
 @@ (5 :> "lane change without indicator")
 @@ (7 :> "wiper + hazard lights: turn on headlights / fog lights")
 @@ (8 :> "horn at a right-turn crossing without pedestrian")
 @@ (9 :> "horn near a pedestrian")
 @@ (10 :> "horn during sudden braking: threatening driving")
 @@ (11 :> "hazard-light misuse on a rainy day")

\* ScenarioState()
ScenarioState ==
    [last_lane_change_chunk |-> None,
     last_lane_change_used_blinker |-> FALSE,
     blinker_still_on_chunks |-> 0,
     last_wiper_hazard_chunk |-> None]

\* ChunkFeatures(chunk_id=c): every flag False (lane_offset is not read by
\* the evaluator and is left out)
ChunkFeatures(c) ==
    [chunk_id |-> c, horn |-> FALSE, blinker_audio |-> FALSE,
     wiper_audio |-> FALSE, left_signal_on |-> FALSE,
     right_signal_on |-> FALSE, hazard_on |-> FALSE, lane_change |-> FALSE,
     tailgating |-> FALSE, sudden_stop |-> FALSE,
     pedestrian_present |-> FALSE, crosswalk_sign_present |-> FALSE]

\* every ChunkFeatures value with chunk id c
AllFeatures(c) ==
    [chunk_id : {c}, horn : BOOLEAN, blinker_audio : BOOLEAN,
     wiper_audio : BOOLEAN, left_signal_on : BOOLEAN,
     right_signal_on : BOOLEAN, hazard_on : BOOLEAN, lane_change : BOOLEAN,
     tailgating : BOOLEAN, sudden_stop : BOOLEAN,
     pedestrian_present : BOOLEAN, crosswalk_sign_present : BOOLEAN]

\* The features process_video builds for chunk c: hazard_on is the
\* conjunction of the two signals.  The scenario specification draws the
\* audio label, the signals, the lane change and the pedestrian freely and
\* keeps tailgating, sudden_stop and the crosswalk sign off.
ChunkInputs(c) ==
    { [ChunkFeatures(c) EXCEPT
         !.horn = h, !.blinker_audio = b, !.wiper_audio = w,
         !.left_signal_on = l, !.right_signal_on = r,
         !.hazard_on = (l /\ r), !.lane_change = lc,
         !.pedestrian_present = p] :
        h \in BOOLEAN, b \in BOOLEAN, w \in BOOLEAN, l \in BOOLEAN,
        r \in BOOLEAN, lc \in BOOLEAN, p \in BOOLEAN }

---------------------------------------------------------------------------
(* ScenarioEvaluator                                                       *)

\* blinker_used = left_signal_on or right_signal_on or blinker_audio
blinker_used(f) == f.left_signal_on \/ f.right_signal_on \/ f.blinker_audio

\* evaluate, first block: a lane change in this chunk is recorded
record_lane_change(s, f) ==
    IF f.lane_change
    THEN [s EXCEPT !.last_lane_change_chunk = f.chunk_id,
                   !.last_lane_change_used_blinker = blinker_used(f),
                   !.blinker_still_on_chunks = 0]
    ELSE s

\* _is_blinker_stuck: the returned value and the state it leaves
is_blinker_stuck(s, f) ==
    LET lane_change_chunk == s.last_lane_change_chunk IN
    IF lane_change_chunk = None \/ ~s.last_lane_change_used_blinker
    THEN [state |-> s, stuck |-> FALSE]
    ELSE IF f.chunk_id - lane_change_chunk > 2
    THEN [state |-> [s EXCEPT !.blinker_still_on_chunks = 0], stuck |-> FALSE]
    ELSE IF f.left_signal_on \/ f.right_signal_on \/ f.blinker_audio
    THEN LET n == s.blinker_still_on_chunks + 1 IN
         [state |-> [s EXCEPT !.blinker_still_on_chunks = n], stuck |-> n >= 2]
    ELSE [state |-> [s EXCEPT !.blinker_still_on_chunks = 0], stuck |-> FALSE]

\* _evaluate_wiper with the repeat window exclusive of its last chunk
evaluate_wiper_window_exclusive(s, f, current_id) ==
    LET wiper_event == f.wiper_audio /\ f.hazard_on
        last_chunk == s.last_wiper_hazard_chunk
    IN
    IF ~wiper_event
    THEN [state |-> s, id |-> current_id]
    ELSE [state |-> [s EXCEPT !.last_wiper_hazard_chunk = f.chunk_id],
          id |-> IF last_chunk # None
                    /\ f.chunk_id - last_chunk < wiper_repeat_window
                 THEN (IF current_id # 0 THEN current_id ELSE 11)
                 ELSE (IF current_id # 0 THEN current_id ELSE 7)]

\* _evaluate_wiper returning early, without recording the occurrence, when
\* rules 1-6 already produced an id
evaluate_wiper_only_when_no_event(s, f, current_id) ==
    LET wiper_event == f.wiper_audio /\ f.hazard_on
        last_chunk == s.last_wiper_hazard_chunk
    IN
    IF ~wiper_event \/ current_id # 0
    THEN [state |-> s, id |-> current_id]
    ELSE [state |-> [s EXCEPT !.last_wiper_hazard_chunk = f.chunk_id],
          id |-> IF last_chunk # None
                    /\ f.chunk_id - last_chunk <= wiper_repeat_window
                 THEN 11
                 ELSE 7]

\* _evaluate_wiper: the returned id and the state it leaves
\* (`scenario_id or 11` is 11 when scenario_id is 0, scenario_id otherwise)
evaluate_wiper(s, f, current_id) ==
    LET wiper_event == f.wiper_audio /\ f.hazard_on
        last_chunk == s.last_wiper_hazard_chunk
    IN
    IF ~wiper_event
    THEN [state |-> s, id |-> current_id]
    ELSE [state |-> [s EXCEPT !.last_wiper_hazard_chunk = f.chunk_id],
          id |-> IF last_chunk # None
                    /\ f.chunk_id - last_chunk <= wiper_repeat_window
                 THEN (IF current_id # 0 THEN current_id ELSE 11)
                 ELSE (IF current_id # 0 THEN current_id ELSE 7)]

\* rule_chain with the sudden-stop rule not excluding tailgating
rule_chain_stop_ignores_tailgating(s, f) ==
    IF f.horn /\ f.sudden_stop
    THEN [state |-> s, id |-> 10]
    ELSE IF f.horn /\ f.tailgating
    THEN [state |-> s, id |-> 11]
    ELSE IF f.horn /\ f.pedestrian_present
    THEN [state |-> s, id |-> 9]
    ELSE IF f.horn /\ f.crosswalk_sign_present /\ ~f.pedestrian_present
            /\ f.right_signal_on
    THEN [state |-> s, id |-> 8]
    ELSE IF f.lane_change /\ ~blinker_used(f)
    THEN [state |-> s, id |-> 5]
    ELSE LET r == is_blinker_stuck(s, f) IN
         [state |-> r.state, id |-> IF r.stuck THEN 4 ELSE 0]

\* rule_chain with the pedestrian rule tested before the tailgating rule
rule_chain_pedestrian_first(s, f) ==
    IF f.horn /\ f.sudden_stop /\ ~f.tailgating
    THEN [state |-> s, id |-> 10]
    ELSE IF f.horn /\ f.pedestrian_present
    THEN [state |-> s, id |-> 9]
    ELSE IF f.horn /\ f.tailgating
    THEN [state |-> s, id |-> 11]
    ELSE IF f.horn /\ f.crosswalk_sign_present /\ ~f.pedestrian_present
            /\ f.right_signal_on
    THEN [state |-> s, id |-> 8]
    ELSE IF f.lane_change /\ ~blinker_used(f)
    THEN [state |-> s, id |-> 5]
    ELSE LET r == is_blinker_stuck(s, f) IN
         [state |-> r.state, id |-> IF r.stuck THEN 4 ELSE 0]

\* The if/elif chain of evaluate: the id of rules 1-6 and the state left by
\* the conditions that were evaluated (_is_blinker_stuck is only reached
\* when rules 1-5 do not match).
rule_chain(s, f) ==
    IF f.horn /\ f.sudden_stop /\ ~f.tailgating
    THEN [state |-> s, id |-> 10]
    ELSE IF f.horn /\ f.tailgating
    THEN [state |-> s, id |-> 11]
    ELSE IF f.horn /\ f.pedestrian_present
    THEN [state |-> s, id |-> 9]
    ELSE IF f.horn /\ f.crosswalk_sign_present /\ ~f.pedestrian_present
            /\ f.right_signal_on
    THEN [state |-> s, id |-> 8]
    ELSE IF f.lane_change /\ ~blinker_used(f)
    THEN [state |-> s, id |-> 5]
    ELSE LET r == is_blinker_stuck(s, f) IN
         [state |-> r.state, id |-> IF r.stuck THEN 4 ELSE 0]

\* ScenarioEvaluator.evaluate: (scenario_id, message) and the new state
evaluate(s, f) ==
    LET r1 == rule_chain(record_lane_change(s, f), f)
        r2 == evaluate_wiper(r1.state, f, r1.id)
    IN [state |-> r2.state,
        scenario_id |-> r2.id,
        message |-> IF r2.id \in DOMAIN SCENARIO_MESSAGES
                    THEN SCENARIO_MESSAGES[r2.id]
                    ELSE NORMAL_MESSAGE]

\* History of the blinker after the last lane change: set when a chunk
\* without blinker (and without a new lane change) follows a lane change
\* made with a blinker, cleared by the next lane change.
next_off_after_change(s, f, off) ==
    IF f.lane_change THEN FALSE
    ELSE off \/ (s.last_lane_change_chunk # None
                 /\ s.last_lane_change_used_blinker
                 /\ f.chunk_id = s.last_lane_change_chunk + 1
                 /\ ~blinker_used(f))

\* One call evaluate(f) on the evaluator
EvaluateCall(f) ==
    LET r == evaluate(state, f) IN
    /\ state' = r.state
    /\ features' = f
    /\ scenario_id' = r.scenario_id
    /\ message' = r.message
    /\ off_after_change' = next_off_after_change(state, f, off_after_change)

\* process_video: one iteration of the chunk loop, as far as the evaluator
\* sees it
ProcessChunk ==
    /\ chunk_id <= MaxChunk
    /\ \E f \in ChunkInputs(chunk_id) : EvaluateCall(f)
    /\ chunk_id' = chunk_id + 1
    /\ UNCHANGED ebsVars
    /\ UNCHANGED engineVars
    /\ UNCHANGED laneVars
    /\ UNCHANGED departureVars
    /\ UNCHANGED serverVars
    /\ UNCHANGED monitorVars
    /\ UNCHANGED configVars
    /\ UNCHANGED yoloVars

\* A single evaluate() call with arbitrary features on a stored state
EvaluateOnce ==
    /\ features.chunk_id # chunk_id
    /\ \E f \in AllFeatures(chunk_id) : EvaluateCall(f)
    /\ UNCHANGED chunk_id
    /\ UNCHANGED ebsVars
    /\ UNCHANGED engineVars
    /\ UNCHANGED laneVars
    /\ UNCHANGED departureVars
    /\ UNCHANGED serverVars
    /\ UNCHANGED monitorVars
    /\ UNCHANGED configVars
    /\ UNCHANGED yoloVars

\* The ScenarioStates an evaluator can hold when chunk c is evaluated
ScenarioStatesAt(c) ==
    { s \in [last_lane_change_chunk : {None} \cup (1 .. c - 1),
             last_lane_change_used_blinker : BOOLEAN,
             blinker_still_on_chunks : 0 .. 3,
             last_wiper_hazard_chunk : {None} \cup (1 .. c - 1)] :
        /\ s.last_lane_change_chunk = None
              => ~s.last_lane_change_used_blinker
        /\ s.blinker_still_on_chunks > 0
              => /\ s.last_lane_change_used_blinker
                 /\ s.blinker_still_on_chunks
                      <= c - s.last_lane_change_chunk
        /\ ~s.last_lane_change_used_blinker => s.blinker_still_on_chunks = 0 }

---------------------------------------------------------------------------
(* EmergencyBrakingSystem (main.py)                                        *)

\* VEHICLE_CLASSES_DEFAULT
vehicle_classes == {"car", "truck", "bus", "motorcycle"}

\* dict helpers: d[k] = v, del d[k], d.get(k, default)
DictPut(d, k, v) == [x \in (DOMAIN d) \cup {k} |-> IF x = k THEN v ELSE d[x]]
DictDel(d, k) == [x \in (DOMAIN d) \ {k} |-> d[x]]
DictGet(d, k, default) == IF k \in DOMAIN d THEN d[k] ELSE default

Abs(x) == IF x < 0 THEN -x ELSE x

\* the age filter keeping every sample
AgeOut_keeps_all(h, fc) == h

\* [h for h in self.history[tid] if self.frame_counter - h[0] <= 15]
RECURSIVE AgeOut(_, _)
AgeOut(h, fc) ==
    IF h = <<>> THEN <<>>
    ELSE IF fc - Head(h)[1] <= 15
         THEN <<Head(h)>> \o AgeOut(Tail(h), fc)
         ELSE AgeOut(Tail(h), fc)

\* the cooldown test with a window of 2 frames
cooldown_over_short(fc, last_warn) == fc - last_warn > 2

\* the cooldown test with the boundary frame included
cooldown_over_inclusive(fc, last_warn) == fc - last_warn >= 20

\* the cooldown test of check: frame_counter - last_warn > 20
cooldown_over(fc, last_warn) == fc - last_warn > 20

\* the loop body counting a vehicle outside the lane gate as present
check_object_outside_present(st, obj, fc) ==
    IF obj.class_name \notin vehicle_classes THEN st
    ELSE IF Abs(obj.distance_lateral_m) > 18
         THEN [st EXCEPT !.present_ids = @ \cup {obj.track_id}]
    ELSE
      LET tid == obj.track_id
          dist == obj.distance_forward_m
          old == IF tid \in DOMAIN st.history THEN st.history[tid] ELSE <<>>
          h == AgeOut(Append(old, <<fc, dist>>), fc)
          st1 == [st EXCEPT !.present_ids = @ \cup {tid},
                            !.history = DictPut(@, tid, h)]
      IN
      IF Len(h) >= 10
      THEN LET curr_dist == dist
               mid_dist == h[Len(h) - 4][2]
               velocity_recent == mid_dist - curr_dist
           IN IF velocity_recent >= 20 /\ dist <= 10
              THEN LET last_warn == DictGet(st1.last_warning, tid, -999) IN
                   IF cooldown_over(fc, last_warn)
                   THEN [st1 EXCEPT !.is_danger_detected = TRUE,
                                    !.last_warning = DictPut(@, tid, fc)]
                   ELSE st1
              ELSE st1
      ELSE st1

\* check, body of the loop for one object; st carries history,
\* last_warning, present_ids and is_danger_detected
check_object(st, obj, fc) ==
    IF obj.class_name \notin vehicle_classes THEN st
    ELSE IF Abs(obj.distance_lateral_m) > 18 THEN st
    ELSE
      LET tid == obj.track_id
          dist == obj.distance_forward_m
          old == IF tid \in DOMAIN st.history THEN st.history[tid] ELSE <<>>
          h == AgeOut(Append(old, <<fc, dist>>), fc)
          st1 == [st EXCEPT !.present_ids = @ \cup {tid},
                            !.history = DictPut(@, tid, h)]
      IN
      IF Len(h) >= 10
      THEN LET curr_dist == dist
               mid_dist == h[Len(h) - 4][2]
               velocity_recent == mid_dist - curr_dist
           IN IF velocity_recent >= 20 /\ dist <= 10
              THEN LET last_warn == DictGet(st1.last_warning, tid, -999) IN
                   IF cooldown_over(fc, last_warn)
                   THEN [st1 EXCEPT !.is_danger_detected = TRUE,
                                    !.last_warning = DictPut(@, tid, fc)]
                   ELSE st1
              ELSE st1
      ELSE st1

\* check, the loop over current_objects
RECURSIVE check_objects(_, _, _)
check_objects(st, objs, fc) ==
    IF objs = <<>> THEN st
    ELSE check_objects(check_object(st, Head(objs), fc), Tail(objs), fc)

\* the final loop skipped when no object passed the tests of the first loop
purge_absent_when_seen(st) ==
    IF st.present_ids = {} THEN st
    ELSE [st EXCEPT !.history =
              [t \in (DOMAIN @) \cap st.present_ids |-> @[t]]]

\* the final loop deleting nothing
purge_nothing(st) == st

\* check, the final loop: tracks not present in this frame lose their
\* history (last_warning is left as it is)
purge_absent(st) ==
    [st EXCEPT !.history = [t \in (DOMAIN @) \cap st.present_ids |-> @[t]]]

\* EmergencyBrakingSystem.check with frame_counter already incremented to fc
check(hist, lastw, objs, fc) ==
    purge_absent(
        check_objects([history |-> hist, last_warning |-> lastw,
                       present_ids |-> {}, is_danger_detected |-> FALSE],
                      objs, fc))

\* The objects of a frame.  One tracked vehicle (track 1) is absent, in the
\* ego lane at one of two forward distances (0 m, 3 m), or outside the lane gate; a
\* pedestrian may be the only object.
TrackIds == {1}

Vehicle(tid, fwd, lat) ==
    [class_name |-> "car", track_id |-> tid,
     distance_forward_m |-> fwd, distance_lateral_m |-> lat]

Pedestrian(tid) ==
    [class_name |-> "pedestrian", track_id |-> tid,
     distance_forward_m |-> 50, distance_lateral_m |-> 0]

Distances == {0, 30}

\* the measured distance of a track may change once it has been the same
\* for MinDwell samples
MayChange(hist, tid) ==
    \/ tid \notin DOMAIN hist
    \/ /\ Len(hist[tid]) >= MinDwell
       /\ \A i \in 0 .. MinDwell - 1 :
            hist[tid][Len(hist[tid]) - i][2] = hist[tid][Len(hist[tid])][2]

FrameObjects(hist) ==
    {<<>>, <<Pedestrian(2)>>, <<Vehicle(1, 0, 25)>>}
    \cup { <<Vehicle(1, d, 0)>> : d \in
             { x \in Distances :
                 \/ MayChange(hist, 1)
                 \/ x = hist[1][Len(hist[1])][2] } }

\* one call ebs.check(objs) on the engine's EmergencyBrakingSystem
CheckCall(objs) ==
    LET fc == frame_counter + 1
        r == check(history, last_warning, objs, fc)
    IN /\ frame_counter' = fc
       /\ current_objects' = objs
       /\ history' = r.history
       /\ last_warning' = r.last_warning
       /\ is_danger_detected' = r.is_danger_detected
       /\ prev_warning' =
            [t \in { x \in DOMAIN r.last_warning :
                       \/ x \in DOMAIN prev_warning
                       \/ /\ x \in DOMAIN last_warning
                          /\ r.last_warning[x] # last_warning[x] } |->
               IF t \in DOMAIN last_warning
                  /\ r.last_warning[t] # last_warning[t]
               THEN last_warning[t]
               ELSE prev_warning[t]]

\* one sampled frame of process_video: ebs.check(current_objects)
Check ==
    /\ frame_counter < MaxFrame
    /\ \E objs \in FrameObjects(history) : CheckCall(objs)
    /\ UNCHANGED evalVars
    /\ UNCHANGED engineVars
    /\ UNCHANGED laneVars
    /\ UNCHANGED departureVars
    /\ UNCHANGED serverVars
    /\ UNCHANGED monitorVars
    /\ UNCHANGED configVars
    /\ UNCHANGED yoloVars

\* the id given to a box the tracker has not numbered:
\* tid = int(box.id[0]) if box.id is not None else -1
NoTrackId == -1

\* The vehicles of a frame in which the tracker numbers no box: none, one,
\* or two in the ego lane, every one under the fallback id.
UntrackedObjects ==
    {<<>>}
    \cup { <<Vehicle(NoTrackId, d, 0)>> : d \in Distances }
    \cup { <<Vehicle(NoTrackId, d1, 0), Vehicle(NoTrackId, d2, 0)>> :
             d1 \in Distances, d2 \in Distances }

\* one sampled frame of process_video whose boxes carry no tracker id
CheckUntracked ==
    /\ frame_counter < MaxUntrackedFrame
    /\ \E objs \in UntrackedObjects : CheckCall(objs)
    /\ UNCHANGED evalVars
    /\ UNCHANGED engineVars
    /\ UNCHANGED laneVars
    /\ UNCHANGED departureVars
    /\ UNCHANGED serverVars
    /\ UNCHANGED monitorVars
    /\ UNCHANGED configVars
    /\ UNCHANGED yoloVars

\* forward distances of an approaching vehicle: 0 m to 5 m
ApproachDistances == {0, 5, 10, 20, 25, 30, 50}

\* one sampled frame with track 1 in the ego lane at any of the distances
CheckApproach ==
    /\ frame_counter < MaxApproachFrame
    /\ \E d \in ApproachDistances : CheckCall(<<Vehicle(1, d, 0)>>)
    /\ UNCHANGED evalVars
    /\ UNCHANGED engineVars
    /\ UNCHANGED laneVars
    /\ UNCHANGED departureVars
    /\ UNCHANGED serverVars
    /\ UNCHANGED monitorVars
    /\ UNCHANGED configVars
    /\ UNCHANGED yoloVars

EbsInit ==
    /\ history = <<>>
    /\ last_warning = <<>>
    /\ frame_counter = 0
    /\ current_objects = <<>>
    /\ is_danger_detected = FALSE
    /\ prev_warning = <<>>

\* the system after nine check() calls that saw track 1 in the ego lane at
\* one unchanged distance
FollowingInit ==
    /\ \E a \in ApproachDistances :
         /\ history = DictPut(<<>>, 1, [i \in 1 .. 9 |-> <<i, a>>])
         /\ current_objects = <<Vehicle(1, a, 0)>>
    /\ last_warning = <<>>
    /\ frame_counter = 9
    /\ is_danger_detected = FALSE
    /\ prev_warning = <<>>

---------------------------------------------------------------------------
(* LaneTracker and detect_lane_change (final_lane_detection.py)            *)
(* Pixel positions are integers in thousandths of a pixel.                 *)

\* a position of n pixels
Px(n) == 1000 * n

\* None for a lane position (no position is as far left as -1000 pixels)
NoLane == -1000000

\* LaneTracker(persistence_frames=15, ...): also the constructor's default
persistence_frames == 15

\* process_video_final: vehicle_x
vehicle_x == Px(200)

\* smooth_alpha * detected + (1 - smooth_alpha) * x, smooth_alpha in tenths
smooth(alpha, detected, x) == (alpha * detected + (10 - alpha) * x) \div 10

\* one side of update with the estimate cleared when the age reaches
\* persistence_frames
update_side_clears_at_horizon(x, age, detected, alpha) ==
    IF detected # NoLane
    THEN [x |-> IF x = NoLane THEN detected ELSE smooth(alpha, detected, x),
          age |-> 0]
    ELSE [x |-> IF age + 1 >= persistence_frames THEN NoLane ELSE x,
          age |-> age + 1]

\* one side of update with the age kept when a detection starts a new
\* estimate
update_side_keeps_age_on_new_estimate(x, age, detected, alpha) ==
    IF detected # NoLane
    THEN IF x = NoLane
         THEN [x |-> detected, age |-> age]
         ELSE [x |-> smooth(alpha, detected, x), age |-> 0]
    ELSE [x |-> IF age + 1 > persistence_frames THEN NoLane ELSE x,
          age |-> age + 1]

\* LaneTracker.update, the block of one side: the estimate and the age
update_side(x, age, detected, alpha) ==
    IF detected # NoLane
    THEN [x |-> IF x = NoLane THEN detected ELSE smooth(alpha, detected, x),
          age |-> 0]
    ELSE [x |-> IF age + 1 > persistence_frames THEN NoLane ELSE x,
          age |-> age + 1]

\* LaneTracker.update: the tracker's fields after the call and the
\* returned confidence flags
update(lx, la, rx, ra, dl, dr, alpha) ==
    LET l == update_side(lx, la, dl, alpha)
        r == update_side(rx, ra, dr, alpha)
    IN [left_x |-> l.x, left_age |-> l.age,
        right_x |-> r.x, right_age |-> r.age,
        left_confident |-> (l.x # NoLane /\ l.age < 5),
        right_confident |-> (r.x # NoLane /\ r.age < 5)]

\* detect_lane_change with a center shift equal to the threshold reported
\* as a change
detect_lane_change_inclusive(lx, rx, prev, thr) ==
    IF lx = NoLane \/ rx = NoLane
    THEN [is_changing |-> FALSE, direction |-> "None", center |-> prev]
    ELSE LET current_center == (lx + rx) \div 2 IN
         IF prev = NoLane
         THEN [is_changing |-> FALSE, direction |-> "None",
               center |-> current_center]
         ELSE LET center_shift == current_center - prev IN
              IF Abs(center_shift) >= thr
              THEN [is_changing |-> TRUE,
                    direction |-> IF center_shift > 0 THEN "to_right"
                                  ELSE "to_left",
                    center |-> current_center]
              ELSE [is_changing |-> FALSE, direction |-> "None",
                    center |-> current_center]

\* detect_lane_change forgetting the center when a side has no estimate
detect_lane_change_forgets_center(lx, rx, prev, thr) ==
    IF lx = NoLane \/ rx = NoLane
    THEN [is_changing |-> FALSE, direction |-> "None", center |-> NoLane]
    ELSE LET current_center == (lx + rx) \div 2 IN
         IF prev = NoLane
         THEN [is_changing |-> FALSE, direction |-> "None",
               center |-> current_center]
         ELSE LET center_shift == current_center - prev IN
              IF Abs(center_shift) > thr
              THEN [is_changing |-> TRUE,
                    direction |-> IF center_shift > 0 THEN "to_right"
                                  ELSE "to_left",
                    center |-> current_center]
              ELSE [is_changing |-> FALSE, direction |-> "None",
                    center |-> current_center]

\* detect_lane_change(tracker, prev_center, threshold):
\* (is_changing, direction, current_center)
detect_lane_change(lx, rx, prev, thr) ==
    IF lx = NoLane \/ rx = NoLane
    THEN [is_changing |-> FALSE, direction |-> "None", center |-> prev]
    ELSE LET current_center == (lx + rx) \div 2 IN
         IF prev = NoLane
         THEN [is_changing |-> FALSE, direction |-> "None",
               center |-> current_center]
         ELSE LET center_shift == current_center - prev IN
              IF Abs(center_shift) > thr
              THEN [is_changing |-> TRUE,
                    direction |-> IF center_shift > 0 THEN "to_right"
                                  ELSE "to_left",
                    center |-> current_center]
              ELSE [is_changing |-> FALSE, direction |-> "None",
                    center |-> current_center]

\* process_video_final, one frame: tracker.update(detected_left,
\* detected_right), then detect_lane_change(tracker, prev_center, threshold);
\* `counted` is the number of changing frames this one adds to
LaneFrame(dl, dr, counted) ==
    LET u == update(left_x, left_age, right_x, right_age, dl, dr,
                    smooth_alpha)
        d == detect_lane_change(u.left_x, u.right_x, prev_center, threshold)
    IN /\ left_x' = u.left_x
       /\ left_age' = u.left_age
       /\ right_x' = u.right_x
       /\ right_age' = u.right_age
       /\ detected_left' = dl
       /\ detected_right' = dr
       /\ is_changing' = d.is_changing
       /\ direction' = d.direction
       /\ prev_center' = d.center
       /\ left_missed' = IF dl = NoLane THEN left_missed + 1 ELSE 0
       /\ right_missed' = IF dr = NoLane THEN right_missed + 1 ELSE 0
       /\ changes' = IF d.is_changing THEN counted + 1 ELSE counted
       /\ UNCHANGED <<smooth_alpha, threshold, detect_done>>

\* The scenes.  find_lane_positions takes the nearest line bottom left of
\* vehicle_x and the nearest right of it; a line bottom is extrapolated to
\* y = 510 from a segment that may end at y = 460 with a slope of up to
\* 28/50, so that it lies between -28 and 427 pixels in the 400 pixel wide
\* bird's-eye view.  The two boundaries of a scene are one lane width apart.
LaneWidth == Px(229)

LeftPositions ==
    { x \in {Px(-28), Px(70), Px(100), Px(197)} :
        x < vehicle_x /\ x + LaneWidth > vehicle_x }


\* (smooth_alpha, threshold): process_video_final's tracker and call, and
\* the defaults of LaneTracker and detect_lane_change
TrackerSettings == {<<9, Px(20)>>, <<7, Px(40)>>}

\* a frame in which both boundaries are detected where they were
SteadyFrame ==
    /\ LaneFrame(raw_left, raw_right, changes)
    /\ UNCHANGED <<raw_left, raw_right, jumps>>
    /\ UNCHANGED evalVars
    /\ UNCHANGED ebsVars
    /\ UNCHANGED engineVars
    /\ UNCHANGED departureVars
    /\ UNCHANGED serverVars
    /\ UNCHANGED monitorVars
    /\ UNCHANGED configVars
    /\ UNCHANGED yoloVars

\* a frame in which both boundaries are detected displaced by the same
\* distance, after at least one frame that gave a center
JumpFrame ==
    /\ jumps < MaxJumps
    /\ prev_center # NoLane
    /\ \E new_left \in LeftPositions \ {raw_left} :
         /\ raw_left' = new_left
         /\ raw_right' = new_left + LaneWidth
         /\ LaneFrame(new_left, new_left + LaneWidth, 0)
    /\ jumps' = jumps + 1
    /\ UNCHANGED evalVars
    /\ UNCHANGED ebsVars
    /\ UNCHANGED engineVars
    /\ UNCHANGED departureVars
    /\ UNCHANGED serverVars
    /\ UNCHANGED monitorVars
    /\ UNCHANGED configVars
    /\ UNCHANGED yoloVars

\* a frame of a scene that does not move, each boundary detected or missed
TrackFrame ==
    /\ \E dl \in {NoLane, raw_left}, dr \in {NoLane, raw_right} :
         /\ dl = NoLane => left_age < MaxLaneAge
         /\ dr = NoLane => right_age < MaxLaneAge
         /\ LaneFrame(dl, dr, changes)
    /\ UNCHANGED <<raw_left, raw_right, jumps>>
    /\ UNCHANGED evalVars
    /\ UNCHANGED ebsVars
    /\ UNCHANGED engineVars
    /\ UNCHANGED departureVars
    /\ UNCHANGED serverVars
    /\ UNCHANGED monitorVars
    /\ UNCHANGED configVars
    /\ UNCHANGED yoloVars

\* one call detect_lane_change(tracker, prev_center, threshold) on a given
\* tracker
DetectOnce ==
    /\ ~detect_done
    /\ detect_done' = TRUE
    /\ LET d == detect_lane_change(left_x, right_x, prev_center, threshold)
       IN /\ is_changing' = d.is_changing
          /\ direction' = d.direction
          /\ prev_center' = d.center
    /\ UNCHANGED <<left_x, right_x, left_age, right_age, smooth_alpha,
                   threshold, detected_left, detected_right, raw_left,
                   raw_right, left_missed, right_missed, jumps, changes>>
    /\ UNCHANGED evalVars
    /\ UNCHANGED ebsVars
    /\ UNCHANGED engineVars
    /\ UNCHANGED departureVars
    /\ UNCHANGED serverVars
    /\ UNCHANGED monitorVars
    /\ UNCHANGED configVars
    /\ UNCHANGED yoloVars

\* LaneTracker.__init__ and prev_center = None, before the first frame
TrackerInit ==
    /\ left_x = NoLane
    /\ right_x = NoLane
    /\ left_age = 0
    /\ right_age = 0
    /\ prev_center = NoLane
    /\ is_changing = FALSE
    /\ direction = "None"
    /\ detected_left = NoLane
    /\ detected_right = NoLane
    /\ left_missed = 0
    /\ right_missed = 0
    /\ jumps = 0
    /\ changes = 0
    /\ detect_done = FALSE

\* process_video_final before its first frame, on one scene
LaneIdle ==
    /\ TrackerInit
    /\ smooth_alpha = 9
    /\ threshold = Px(20)
    /\ raw_left = Px(100)
    /\ raw_right = Px(100) + LaneWidth

\* a tracker before its first frame, for every scene and setting
LaneInit ==
    /\ TrackerInit
    /\ \E setting \in TrackerSettings :
         /\ smooth_alpha = setting[1]
         /\ threshold = setting[2]
    /\ raw_left \in LeftPositions
    /\ raw_right = raw_left + LaneWidth

\* the arguments of a single detect_lane_change call
DetectInputs ==
    /\ left_x \in {NoLane, Px(150)}
    /\ right_x \in {NoLane, Px(250), Px(290), Px(350)}
    /\ prev_center \in {NoLane, Px(160), Px(180), Px(200), Px(210),
                        Px(240), Px(250), Px(290)}
    /\ threshold \in {Px(20), Px(40)}
    /\ smooth_alpha = 7
    /\ left_age = 0
    /\ right_age = 0
    /\ is_changing = FALSE
    /\ direction = "None"
    /\ detected_left = left_x
    /\ detected_right = right_x
    /\ raw_left = Px(150)
    /\ raw_right = Px(250)
    /\ left_missed = 0
    /\ right_missed = 0
    /\ jumps = 0
    /\ changes = 0
    /\ detect_done = FALSE

---------------------------------------------------------------------------
(* detect_lane_departure (lane_departure_detection.py)                     *)

\* detect_lane_departure(vehicle_x, left_lane_x, right_lane_x, prev_state):
\* (is_departing, direction, new_state)
detect_lane_departure(vx, left, right, prev) ==
    IF left = NoLane \/ right = NoLane
    THEN [is_departing |-> FALSE, direction |-> "None", new_state |-> prev]
    ELSE LET crossing_left == vx <= left
             crossing_right == vx >= right
         IN IF crossing_left /\ prev # "crossing_left"
            THEN [is_departing |-> TRUE, direction |-> "left",
                  new_state |-> "crossing_left"]
            ELSE IF crossing_right /\ prev # "crossing_right"
            THEN [is_departing |-> TRUE, direction |-> "right",
                  new_state |-> "crossing_right"]
            ELSE IF crossing_left
            THEN [is_departing |-> FALSE, direction |-> "None",
                  new_state |-> "crossing_left"]
            ELSE IF crossing_right
            THEN [is_departing |-> FALSE, direction |-> "None",
                  new_state |-> "crossing_right"]
            ELSE [is_departing |-> FALSE, direction |-> "None",
                  new_state |-> "normal"]

\* the boundary positions passed to detect_lane_departure: none, or one
\* left of, at, or right of the vehicle center
BoundaryPositions == {NoLane, Px(150), vehicle_x, Px(250)}

\* the vehicle center is at or beyond the left (right) boundary
AtOrBeyondLeft(left) == left # NoLane /\ vehicle_x <= left
AtOrBeyondRight(right) == right # NoLane /\ vehicle_x >= right

\* one frame: detect_lane_departure(vehicle_x, left_x, right_x, prev_state)
\* with the returned state kept for the next call
DepartureCallWith(left, right) ==
    /\ calls < MaxCalls
    /\ LET d == detect_lane_departure(vehicle_x, left, right, prev_state)
       IN /\ prev_state' = d.new_state
          /\ is_departing' = d.is_departing
          /\ departure_direction' = d.direction
          /\ left_lane_x' = left
          /\ right_lane_x' = right
          /\ all_left' = (all_left /\ AtOrBeyondLeft(left))
          /\ all_right' = (all_right /\ AtOrBeyondRight(right))
          /\ events' = IF d.is_departing THEN events + 1 ELSE events
          /\ first_event' = IF calls = 0 THEN d.is_departing
                            ELSE first_event
    /\ calls' = calls + 1
    /\ UNCHANGED evalVars
    /\ UNCHANGED ebsVars
    /\ UNCHANGED engineVars
    /\ UNCHANGED laneVars
    /\ UNCHANGED serverVars
    /\ UNCHANGED monitorVars
    /\ UNCHANGED configVars
    /\ UNCHANGED yoloVars

\* the call with any pair of boundary positions
DepartureCall ==
    \E left \in BoundaryPositions, right \in BoundaryPositions :
        DepartureCallWith(left, right)

SetMax(S) == CHOOSE x \in S : \A y \in S : y <= x
SetMin(S) == CHOOSE x \in S : \A y \in S : x <= y

\* find_closest_lanes with the left side open to the vehicle center
find_closest_lanes_inclusive(lane_centers, vx) ==
    LET left_lanes == { x \in lane_centers : x <= vx }
        right_lanes == { x \in lane_centers : x > vx }
    IN [left_lane_x |-> IF left_lanes # {} THEN SetMax(left_lanes)
                        ELSE NoLane,
        right_lane_x |-> IF right_lanes # {} THEN SetMin(right_lanes)
                         ELSE NoLane]

\* find_closest_lanes from the list of cluster centers on (an empty list
\* returns None, None): the closest center strictly left of the vehicle and
\* the closest strictly right of it
find_closest_lanes(lane_centers, vx) ==
    LET left_lanes == { x \in lane_centers : x < vx }
        right_lanes == { x \in lane_centers : x > vx }
    IN [left_lane_x |-> IF left_lanes # {} THEN SetMax(left_lanes)
                        ELSE NoLane,
        right_lane_x |-> IF right_lanes # {} THEN SetMin(right_lanes)
                         ELSE NoLane]

\* the columns at which a lane mask can have a cluster center: three on
\* each side of the vehicle center and the vehicle center itself
CenterColumns ==
    {Px(50), Px(150), Px(199), vehicle_x, Px(201), Px(250), Px(350)}

\* one frame of process_video_with_lane_departure: the lane mask, its
\* closest boundaries, detect_lane_departure
DepartureFrame ==
    \E lane_centers \in SUBSET CenterColumns :
        LET c == find_closest_lanes(lane_centers, vehicle_x)
        IN DepartureCallWith(c.left_lane_x, c.right_lane_x)

\* prev_state = 'normal' before the first frame
DepartureInit ==
    /\ prev_state = "normal"
    /\ is_departing = FALSE
    /\ departure_direction = "None"
    /\ left_lane_x = NoLane
    /\ right_lane_x = NoLane
    /\ calls = 0
    /\ all_left = TRUE
    /\ all_right = TRUE
    /\ events = 0
    /\ first_event = FALSE

---------------------------------------------------------------------------
(* LaneChangeMonitor (main.py)                                             *)

\* LANE_CHANGE_THRESHOLD_PX = 40.0, the --lane-change-threshold default
threshold_px == Px(40)

\* mask.shape[1] / 2 for LANE_IMAGE_SIZE = (256, 256)
mask_half_width == Px(128)

\* _estimate_center returned None
NoCenter == NoLane

\* the centers _estimate_center finds: column means of the lower mask,
\* among them pairs 39, 40 and 41 px apart
MonitorCenters ==
    { Px(c) : c \in {60, 80, 100, 119, 120, 121, 140, 159, 160, 161, 180,
                     200} }

\* LaneChangeMonitor.process after _estimate_center: lane_change, offset
\* and the new prev_center
process(prev, center) ==
    IF center # NoCenter
    THEN [lane_change |-> prev # NoCenter /\ Abs(center - prev) >= threshold_px,
          offset |-> center - mask_half_width,
          prev_center |-> center]
    ELSE [lane_change |-> FALSE, offset |-> 0, prev_center |-> prev]

\* one call lane_monitor.process(lane_frame), for any center estimate
MonitorProcess ==
    /\ \E center \in MonitorCenters \cup {NoCenter} :
         LET r == process(monitor_prev_center, center)
         IN /\ monitor_center' = center
            /\ monitor_before' = monitor_prev_center
            /\ monitor_lane_change' = r.lane_change
            /\ monitor_offset' = r.offset
            /\ monitor_prev_center' = r.prev_center
    /\ UNCHANGED evalVars
    /\ UNCHANGED ebsVars
    /\ UNCHANGED engineVars
    /\ UNCHANGED laneVars
    /\ UNCHANGED departureVars
    /\ UNCHANGED serverVars
    /\ UNCHANGED configVars
    /\ UNCHANGED yoloVars

\* LaneChangeMonitor.__init__: prev_center = None
MonitorIdle ==
    /\ monitor_prev_center = NoCenter
    /\ monitor_center = NoCenter
    /\ monitor_before = NoCenter
    /\ monitor_lane_change = FALSE
    /\ monitor_offset = 0

---------------------------------------------------------------------------
(* main() and its configuration (main.py)                                  *)

\* parse_args: the defaults of --signal-threshold, --tailgating-frames,
\* --wiper-repeat-window, --sampled-frames and --chunk-seconds
DefaultArgs ==
    [signal_threshold |-> 3, tailgating_frames |-> 7,
     wiper_repeat_window |-> 3, sampled_frames |-> 20, chunk_seconds |-> 2]

\* no chunk has been evaluated
NoArgsFeatures ==
    [left_signal_on |-> FALSE, right_signal_on |-> FALSE,
     hazard_on |-> FALSE, tailgating |-> FALSE]

\* the program started with its defaults
ConfigIdle ==
    /\ args = DefaultArgs
    /\ main_pc = "parse_args"
    /\ evaluated_chunks = 0
    /\ args_features = NoArgsFeatures

---------------------------------------------------------------------------
(* test_video_by_chunks and its EmergencyBrakingSystem (algorithm_yolo.py) *)

VEHICLE_CLASSES == {"car", "truck", "bus", "motorcycle"}

\* LANE_WIDTH_THRESHOLD = 1.8
LANE_WIDTH_THRESHOLD == 18

\* EMERGENCY_DIST_THRESHOLD = 0.0
EMERGENCY_DIST_THRESHOLD == 0

\* the row of the own car in the bird's-eye view and the rows per metre
MY_CAR_BEV_Y == 400
PIXELS_PER_METER_Y == 20

\* the frames held after a warning: stop_sustain_frames = 40
YOLO_SUSTAIN_FRAMES == 40

\* the frames of a chunk handed to the tracker: np.linspace(..., 20, ...)
YoloSampled == 20

\* the forward distance taken from the row as it is
distance_forward_unclamped(by) ==
    ((MY_CAR_BEV_Y - by) * 10) \div PIXELS_PER_METER_Y

\* dist_fwd of a box that is not a traffic light, from the row `by` of its
\* foot in the bird's-eye view: a row above the view counts as row 0, a
\* negative distance as 0.0.  The rows of the specification are even, so
\* that the distance is a whole number of tenths of a metre.
distance_forward(by) ==
    LET row == IF by < 0 THEN 0 ELSE by
        dist_fwd == ((MY_CAR_BEV_Y - row) * 10) \div PIXELS_PER_METER_Y
    IN IF dist_fwd < 0 THEN 0 ELSE dist_fwd

\* a box of the tracker: class, id, row of its foot in the bird's-eye view
\* and lateral distance
Box(name, tid, by, lat) ==
    [class_name |-> name, track_id |-> tid, by |-> by,
     distance_lateral_m |-> lat]

\* the entry of current_objects made for a box
yolo_object(box) ==
    [class_name |-> box.class_name, track_id |-> box.track_id,
     distance_forward_m |-> distance_forward(box.by),
     distance_lateral_m |-> box.distance_lateral_m]

\* current_objects of a frame
yolo_objects(boxes) == [i \in DOMAIN boxes |-> yolo_object(boxes[i])]

\* EmergencyBrakingSystem.check of algorithm_yolo.py, body of the loop for
\* one object
yolo_check_object(st, obj, fc) ==
    IF obj.class_name \notin VEHICLE_CLASSES THEN st
    ELSE IF ~(Abs(obj.distance_lateral_m) < LANE_WIDTH_THRESHOLD) THEN st
    ELSE
      LET tid == obj.track_id
          dist == obj.distance_forward_m
          old == IF tid \in DOMAIN st.history THEN st.history[tid] ELSE <<>>
          h == AgeOut(Append(old, <<fc, dist>>), fc)
          st1 == [st EXCEPT !.present_ids = @ \cup {tid},
                            !.history = DictPut(@, tid, h)]
      IN
      IF Len(h) >= 10
      THEN LET curr_dist == dist
               mid_dist == h[Len(h) - 4][2]
               velocity_recent == mid_dist - curr_dist
           IN IF \/ velocity_recent >= 20 /\ velocity_recent > 0
                 \/ velocity_recent >= 25
              THEN IF dist < EMERGENCY_DIST_THRESHOLD
                   THEN LET last_warn ==
                                DictGet(st1.last_warning, tid, -999)
                        IN IF fc - last_warn > 20
                           THEN [st1 EXCEPT
                                   !.is_danger_detected = TRUE,
                                   !.last_warning = DictPut(@, tid, fc)]
                           ELSE st1
                   ELSE st1
              ELSE st1
      ELSE st1

RECURSIVE yolo_check_objects(_, _, _)
yolo_check_objects(st, objs, fc) ==
    IF objs = <<>> THEN st
    ELSE yolo_check_objects(yolo_check_object(st, Head(objs), fc),
                            Tail(objs), fc)

\* EmergencyBrakingSystem.check of algorithm_yolo.py: the system after the
\* call and the value returned
yolo_check(ebs, objs) ==
    LET fc == ebs.frame_counter + 1
        st == purge_absent(
                yolo_check_objects(
                    [history |-> ebs.history,
                     last_warning |-> ebs.last_warning,
                     present_ids |-> {}, is_danger_detected |-> FALSE],
                    objs, fc))
    IN [ebs |-> [history |-> st.history, last_warning |-> st.last_warning,
                 frame_counter |-> fc],
        is_danger_detected |-> st.is_danger_detected]

\* EmergencyBrakingSystem()
NewEbs == [history |-> <<>>, last_warning |-> <<>>, frame_counter |-> 0]

\* the rows of the foot of a box: 3 m ahead, at the own car, 1 m behind it
BevRows == {340, 400, 420}

\* The boxes of a frame: none, track 1 outside the lane, or track 1 in the
\* lane at one of the rows; its distance may change once it has been the
\* same for YoloDwell samples.
YoloBoxes(hist) ==
    {<<>>, <<Box("car", 1, 400, 25)>>}
    \cup { <<Box("car", 1, by, 0)>> : by \in
             { r \in BevRows :
                 \/ 1 \notin DOMAIN hist
                 \/ distance_forward(r) = hist[1][Len(hist[1])][2]
                 \/ /\ Len(hist[1]) >= YoloDwell
                    /\ \A i \in 1 .. YoloDwell - 1 :
                         hist[1][Len(hist[1]) - i][2]
                             = hist[1][Len(hist[1])][2] } }

\* test_video_by_chunks, the head of the chunk loop for a chunk that has
\* frames: a new EmergencyBrakingSystem, the flags of the chunk cleared
YoloStartChunk ==
    /\ yolo_pc = "read"
    /\ yolo_chunk_id <= MaxYoloChunks
    /\ yolo_ebs' = NewEbs
    /\ is_sudden_stop' = FALSE
    /\ is_tailgating_confirmed' = FALSE
    /\ yolo_frames_left' = YoloSampled
    /\ yolo_pc' = "frames"
    /\ UNCHANGED <<yolo_stop_sustain_frames, yolo_chunk_stop_warning,
                   tailgating_frame_counter, yolo_chunk_id, yolo_boxes>>
    /\ UNCHANGED evalVars
    /\ UNCHANGED ebsVars
    /\ UNCHANGED engineVars
    /\ UNCHANGED laneVars
    /\ UNCHANGED departureVars
    /\ UNCHANGED serverVars
    /\ UNCHANGED monitorVars
    /\ UNCHANGED configVars

\* test_video_by_chunks, one iteration of the loop over the results: the
\* distances of the boxes, the tailgating counter, ebs.check and the
\* sustain of its warning
YoloFrame ==
    /\ yolo_pc = "frames"
    /\ yolo_frames_left > 0
    /\ \E boxes \in YoloBoxes(yolo_ebs.history) :
         LET objs == yolo_objects(boxes)
             close == \E i \in DOMAIN objs :
                         /\ objs[i].class_name \in VEHICLE_CLASSES
                         /\ objs[i].distance_forward_m <= 30
             counter == IF close THEN tailgating_frame_counter + 1 ELSE 0
             r == yolo_check(yolo_ebs, objs)
             sustain == IF r.is_danger_detected THEN YOLO_SUSTAIN_FRAMES
                        ELSE yolo_stop_sustain_frames
         IN /\ yolo_boxes' = boxes
            /\ tailgating_frame_counter' = counter
            /\ is_tailgating_confirmed' =
                   (is_tailgating_confirmed \/ counter >= 30)
            /\ yolo_ebs' = r.ebs
            /\ yolo_chunk_stop_warning' =
                   (r.is_danger_detected \/ sustain > 0)
            /\ is_sudden_stop' = (is_sudden_stop \/ sustain > 0)
            /\ yolo_stop_sustain_frames' =
                   IF sustain > 0 THEN sustain - 1 ELSE sustain
    /\ yolo_frames_left' = yolo_frames_left - 1
    /\ UNCHANGED <<yolo_chunk_id, yolo_pc>>
    /\ UNCHANGED evalVars
    /\ UNCHANGED ebsVars
    /\ UNCHANGED engineVars
    /\ UNCHANGED laneVars
    /\ UNCHANGED departureVars
    /\ UNCHANGED serverVars
    /\ UNCHANGED monitorVars
    /\ UNCHANGED configVars

\* test_video_by_chunks, the tail of the chunk loop: the summary of the
\* chunk is printed and chunk_id incremented
YoloFinishChunk ==
    /\ yolo_pc = "frames"
    /\ yolo_frames_left = 0
    /\ yolo_chunk_id' = yolo_chunk_id + 1
    /\ yolo_pc' = "read"
    /\ UNCHANGED <<yolo_ebs, yolo_stop_sustain_frames,
                   yolo_chunk_stop_warning, is_sudden_stop,
                   tailgating_frame_counter, is_tailgating_confirmed,
                   yolo_frames_left, yolo_boxes>>
    /\ UNCHANGED evalVars
    /\ UNCHANGED ebsVars
    /\ UNCHANGED engineVars
    /\ UNCHANGED laneVars
    /\ UNCHANGED departureVars
    /\ UNCHANGED serverVars
    /\ UNCHANGED monitorVars
    /\ UNCHANGED configVars

\* test_video_by_chunks before the first chunk is read
YoloIdle ==
    /\ yolo_ebs = NewEbs
    /\ yolo_stop_sustain_frames = 0
    /\ yolo_chunk_stop_warning = FALSE
    /\ is_sudden_stop = FALSE
    /\ tailgating_frame_counter = 0
    /\ is_tailgating_confirmed = FALSE
    /\ yolo_frames_left = 0
    /\ yolo_chunk_id = 1
    /\ yolo_boxes = <<>>
    /\ yolo_pc = "read"

---------------------------------------------------------------------------
(* The analysis server: POST /api/analyze/scenario                         *)

\* ScenarioFeatures: nine booleans, each False when the body leaves it out
ScenarioFeatures ==
    [horn : BOOLEAN, blinker : BOOLEAN, wiper : BOOLEAN,
     lane_change : BOOLEAN, pedestrian : BOOLEAN, tailgating : BOOLEAN,
     sudden_stop : BOOLEAN, left_signal : BOOLEAN, right_signal : BOOLEAN]

\* ScenarioFeatures(): every field at its default
DefaultFeatures ==
    [horn |-> FALSE, blinker |-> FALSE, wiper |-> FALSE,
     lane_change |-> FALSE, pedestrian |-> FALSE, tailgating |-> FALSE,
     sudden_stop |-> FALSE, left_signal |-> FALSE, right_signal |-> FALSE]

\* ScenarioResponse(success, scenario_id, message)
ScenarioResponse(id, msg) ==
    [success |-> TRUE, scenario_id |-> id, message |-> msg]

\* no response has been sent
NoResponse == [success |-> FALSE, scenario_id |-> None, message |-> ""]

\* the rule chain with the lane-change rule ahead of the horn rules
analyze_scenario_lane_change_first(f) ==
    IF f.lane_change /\ ~f.blinker
    THEN ScenarioResponse(5, "lane change without signal")
    ELSE IF f.horn /\ f.sudden_stop
    THEN ScenarioResponse(10, "horn with sudden stop")
    ELSE IF f.horn /\ f.pedestrian
    THEN ScenarioResponse(9, "horn at pedestrian")
    ELSE IF f.wiper /\ f.left_signal /\ f.right_signal
    THEN ScenarioResponse(7, "wiper with hazard lights")
    ELSE ScenarioResponse(0, NORMAL_MESSAGE)

\* analyze_scenario: the if/elif chain over the request body alone; no
\* statement of the try block can raise on a validated body, so the
\* HTTPException(500) branch is not taken
analyze_scenario(f) ==
    IF f.horn /\ f.sudden_stop
    THEN ScenarioResponse(10, "horn with sudden stop")
    ELSE IF f.horn /\ f.pedestrian
    THEN ScenarioResponse(9, "horn at pedestrian")
    ELSE IF f.lane_change /\ ~f.blinker
    THEN ScenarioResponse(5, "lane change without signal")
    ELSE IF f.wiper /\ f.left_signal /\ f.right_signal
    THEN ScenarioResponse(7, "wiper with hazard lights")
    ELSE ScenarioResponse(0, NORMAL_MESSAGE)

\* one request handled: the handler reads the body and nothing else, and
\* writes nothing but its response
AnalyzeScenario ==
    /\ \E f \in ScenarioFeatures :
         /\ request' = f
         /\ response' = analyze_scenario(f)
    /\ UNCHANGED <<audio_model, started, audio_response>>
    /\ UNCHANGED evalVars
    /\ UNCHANGED ebsVars
    /\ UNCHANGED engineVars
    /\ UNCHANGED laneVars
    /\ UNCHANGED departureVars
    /\ UNCHANGED monitorVars
    /\ UNCHANGED configVars
    /\ UNCHANGED yoloVars

\* audio_model = None
NoModel == "None"

\* no audio request has been answered
NoAudioResponse == [status_code |-> 0, detail |-> "", label |-> ""]

\* AUDIO_CLASS_NAMES, the CLASS_NAMES of AudioCNN
AUDIO_CLASS_NAMES == {"blinker", "horn", "wiper", "normal"}

\* the audio field of a request: base64 of a sound file, or bytes that
\* b64decode or librosa.load rejects
AudioPayloads == {"sound", "undecodable"}

\* HTTPException(status_code, detail), an Exception
HTTPException(status_code, detail) ==
    [class |-> "HTTPException", status_code |-> status_code,
     detail |-> detail]

\* str(e).  For an HTTPException the web framework's version decides: the
\* status code and the detail joined by ": ", or the empty string of an
\* exception constructed without arguments.
StrOf(e) ==
    IF e.class = "HTTPException"
    THEN {"503: Audio model not loaded", ""}
    ELSE {e.detail}

\* analyze_audio, the body of its try: the exception it raises or the
\* label it returns
analyze_audio_try(model, audio, top_label) ==
    IF model = NoModel
    THEN [raised |-> TRUE,
          e |-> HTTPException(503, "Audio model not loaded")]
    ELSE IF audio = "undecodable"
         THEN [raised |-> TRUE,
               e |-> [class |-> "Exception", status_code |-> 0,
                      detail |-> "decode error"]]
         ELSE [raised |-> FALSE, label |-> top_label]

\* analyze_audio: the answers it can give; `except Exception as e` turns
\* every exception of the body into HTTPException(500, str(e))
analyze_audio(model, audio, top_label) ==
    LET r == analyze_audio_try(model, audio, top_label)
    IN IF r.raised
       THEN { [status_code |-> 500, detail |-> s, label |-> ""] :
                s \in StrOf(r.e) }
       ELSE { [status_code |-> 200, detail |-> "", label |-> r.label] }

\* the startup event: the audio model is loaded when its file exists
load_models ==
    /\ ~started
    /\ started' = TRUE
    /\ \E exists \in BOOLEAN :
         audio_model' = IF exists THEN "AudioCNN" ELSE NoModel
    /\ UNCHANGED <<request, response, audio_response>>
    /\ UNCHANGED evalVars
    /\ UNCHANGED ebsVars
    /\ UNCHANGED engineVars
    /\ UNCHANGED laneVars
    /\ UNCHANGED departureVars
    /\ UNCHANGED monitorVars
    /\ UNCHANGED configVars
    /\ UNCHANGED yoloVars

\* POST /api/analyze/audio on the started server
AnalyzeAudio ==
    /\ started
    /\ \E audio \in AudioPayloads, top_label \in AUDIO_CLASS_NAMES :
         audio_response' \in analyze_audio(audio_model, audio, top_label)
    /\ UNCHANGED <<request, response, audio_model, started>>
    /\ UNCHANGED evalVars
    /\ UNCHANGED ebsVars
    /\ UNCHANGED engineVars
    /\ UNCHANGED laneVars
    /\ UNCHANGED departureVars
    /\ UNCHANGED monitorVars
    /\ UNCHANGED configVars
    /\ UNCHANGED yoloVars

\* POST /api/analyze/scenario on the started server
ServedScenario ==
    /\ started
    /\ AnalyzeScenario

\* the server before its first request
ServerIdle ==
    /\ request = DefaultFeatures
    /\ response = NoResponse
    /\ audio_model = NoModel
    /\ started = FALSE
    /\ audio_response = NoAudioResponse

\* main() before the first process_video call reads its first chunk
EngineInit ==
    /\ video = 1
    /\ pc = "read"
    /\ chunk_features = ChunkFeatures(0)
    /\ frames_left = 0
    /\ chunk_l_counts = 0
    /\ chunk_r_counts = 0
    /\ frame_log = <<>>
    /\ results = <<>>
    /\ tailgating_frames = 0
    /\ stop_sustain_frames = 0
    /\ chunk_stop_warning = FALSE
    /\ frame_has_close_vehicle = FALSE
    /\ warning = FALSE
    /\ close_run = 0
    /\ close_run_max = 0

\* the head of process_video for a video whose audio track librosa.load
\* reads
AudioLoaded == audio_loaded = TRUE

\* ScenarioEngine.__init__ and the head of process_video
MainInit ==
    /\ state = ScenarioState
    /\ chunk_id = 1
    /\ features = ChunkFeatures(0)
    /\ scenario_id = 0
    /\ message = NORMAL_MESSAGE
    /\ off_after_change = FALSE
    /\ EbsInit
    /\ EngineInit
    /\ AudioLoaded

\* every component after its construction
Init ==
    /\ MainInit
    /\ LaneIdle
    /\ DepartureInit
    /\ ServerIdle
    /\ MonitorIdle
    /\ ConfigIdle
    /\ YoloIdle

Next == ProcessChunk

Spec == Init /\ [][Next]_vars

\* evaluate() as a function of (state, features): every stored state, every
\* feature combination, one call
EvalInit ==
    /\ chunk_id \in 1 .. MaxEvalChunk
    /\ state \in ScenarioStatesAt(chunk_id)
    /\ features = ChunkFeatures(0)
    /\ scenario_id = 0
    /\ message = NORMAL_MESSAGE
    /\ off_after_change = FALSE
    /\ EbsInit
    /\ EngineInit
    /\ AudioLoaded
    /\ LaneIdle
    /\ DepartureInit
    /\ ServerIdle
    /\ MonitorIdle
    /\ ConfigIdle
    /\ YoloIdle

EvalNext == EvaluateOnce

EvalSpec == EvalInit /\ [][EvalNext]_vars

\* EmergencyBrakingSystem.check called once per sampled frame
EbsNext == Check

EbsSpec == Init /\ [][EbsNext]_vars

\* check called on frames whose boxes have no tracker id
UntrackedNext == CheckUntracked

UntrackedSpec == Init /\ [][UntrackedNext]_vars

\* check as a function of the distances of one followed track
ApproachInit ==
    /\ state = ScenarioState
    /\ chunk_id = 1
    /\ features = ChunkFeatures(0)
    /\ scenario_id = 0
    /\ message = NORMAL_MESSAGE
    /\ off_after_change = FALSE
    /\ FollowingInit
    /\ EngineInit
    /\ AudioLoaded
    /\ LaneIdle
    /\ DepartureInit
    /\ ServerIdle
    /\ MonitorIdle
    /\ ConfigIdle
    /\ YoloIdle

ApproachNext == CheckApproach

ApproachSpec == ApproachInit /\ [][ApproachNext]_vars

---------------------------------------------------------------------------
(* ScenarioEngine.process_video, frame by frame (main.py)                  *)

\* --signal-threshold default
signal_threshold == 3

\* args.videos: the videos named on the command line
Videos == <<"first.mp4", "second.mp4">>

\* AudioEventDetector.predict: the top label with a score at or above
\* --audio-threshold; "other" stands for every label or score that sets no
\* feature.  The chunks of this specification carry no horn and no blinker
\* sound.
AudioLabels == {"other", "wiper"}

\* the chunk-level signal with the count compared exclusively
signal_on_exclusive(count) == count > signal_threshold

\* chunk_l_counts >= args.signal_threshold
signal_on(count) == count >= signal_threshold

\* TAILGATING_DISTANCE_M = 3.0
TAILGATING_DISTANCE_M == 30

\* --tailgating-frames default
args_tailgating_frames == 7

\* the frames the warning is held after check() returned True
STOP_SUSTAIN_FRAMES == 40

Max(a, b) == IF a >= b THEN a ELSE b

\* current_objects: the boxes of a vehicle class
vehicles_of(objs) ==
    SelectSeq(objs, LAMBDA o : o.class_name \in vehicle_classes)

\* frame_has_close_vehicle after the loop over the boxes of a frame
close_vehicle(objs) ==
    \E i \in DOMAIN objs :
        /\ objs[i].class_name \in vehicle_classes
        /\ objs[i].distance_forward_m <= TAILGATING_DISTANCE_M

\* the counter set to 0 by a frame without a close vehicle
count_close_frames_resetting(n, close) ==
    IF close THEN n + 1 ELSE 0

\* self.tailgating_frames after a frame
count_close_frames(n, close) ==
    IF close THEN n + 1 ELSE Max(0, n - 1)

\* the warning held for half the frames
sustain_warning_short(sustain, returned) ==
    LET held == IF returned THEN Max(sustain, 20) ELSE sustain
    IN [warning |-> returned \/ held > 0,
        stop_sustain_frames |-> IF held > 0 THEN held - 1 ELSE held]

\* `warning` and self.stop_sustain_frames after the sustain statements that
\* follow ebs.check
sustain_warning(sustain, returned) ==
    LET held == IF returned THEN Max(sustain, STOP_SUSTAIN_FRAMES)
                ELSE sustain
    IN [warning |-> returned \/ held > 0,
        stop_sustain_frames |-> IF held > 0 THEN held - 1 ELSE held]

\* the features of the chunk once its sampled frames have been processed;
\* the sampled frames of the specifications show no pedestrian and no
\* crosswalk sign to the class test, so that pedestrian_present and
\* crosswalk_sign_present keep their defaults
finished_features(f, l_counts, r_counts, stop_warning, close_frames) ==
    [f EXCEPT !.left_signal_on = signal_on(l_counts),
              !.right_signal_on = signal_on(r_counts),
              !.hazard_on = signal_on(l_counts) /\ signal_on(r_counts),
              !.sudden_stop = stop_warning,
              !.tailgating = close_frames >= args_tailgating_frames]

\* ChunkResult(chunk_id, scenario_id, scenario_text, features, audio_text),
\* without the texts and with the chunk-level signals of its features
ChunkResult(c, id, f) ==
    [chunk_id |-> c, scenario_id |-> id,
     left_signal_on |-> f.left_signal_on,
     right_signal_on |-> f.right_signal_on]

\* _slice_audio and AudioEventDetector.predict: the slice of an empty
\* waveform is empty, and predict returns the label None for it, which sets
\* no feature
predict(loaded, audio_label) ==
    IF loaded THEN audio_label ELSE "other"

\* process_video, the head of the chunk loop for a chunk that has frames:
\* the audio label and the lane monitor fill the first features, the
\* counters and flags of the chunk are cleared
StartChunkWith(audio_label, lane_change) ==
    /\ pc = "read"
    /\ chunk_features' =
           [ChunkFeatures(chunk_id) EXCEPT
               !.horn = (predict(audio_loaded, audio_label) = "horn"),
               !.blinker_audio =
                   (predict(audio_loaded, audio_label) = "blinker"),
               !.wiper_audio = (predict(audio_loaded, audio_label) = "wiper"),
               !.lane_change = lane_change]
    /\ frames_left' = SampledFrames
    /\ chunk_l_counts' = 0
    /\ chunk_r_counts' = 0
    /\ chunk_stop_warning' = FALSE
    /\ frame_log' = <<>>
    /\ pc' = "frames"
    /\ UNCHANGED <<video, results, audio_loaded>>
    /\ UNCHANGED counterVars
    /\ UNCHANGED evalVars
    /\ UNCHANGED ebsVars
    /\ UNCHANGED laneVars
    /\ UNCHANGED departureVars
    /\ UNCHANGED serverVars
    /\ UNCHANGED monitorVars
    /\ UNCHANGED configVars
    /\ UNCHANGED yoloVars

\* the head of the chunk loop, any audio label, any lane monitor report
StartChunk ==
    /\ chunk_id <= MaxVideoChunks
    /\ \E audio_label \in AudioLabels, lane_change \in BOOLEAN :
         StartChunkWith(audio_label, lane_change)

\* process_video, one iteration of the loop over the sampled frames: the
\* signal counts, the boxes, the tailgating counter, ebs.check and the
\* sustain of its warning
ProcessFrameWith(left, right, objs) ==
    /\ pc = "frames"
    /\ frames_left > 0
    /\ chunk_l_counts' = IF left THEN chunk_l_counts + 1 ELSE chunk_l_counts
    /\ chunk_r_counts' = IF right THEN chunk_r_counts + 1 ELSE chunk_r_counts
    /\ frame_log' = Append(frame_log, <<left, right>>)
    /\ frame_has_close_vehicle' = close_vehicle(objs)
    /\ tailgating_frames' =
           count_close_frames(tailgating_frames, close_vehicle(objs))
    /\ close_run' = IF close_vehicle(objs) THEN close_run + 1 ELSE 0
    /\ close_run_max' = Max(close_run_max, close_run')
    /\ CheckCall(vehicles_of(objs))
    /\ LET s == sustain_warning(stop_sustain_frames, is_danger_detected')
       IN /\ warning' = s.warning
          /\ stop_sustain_frames' = s.stop_sustain_frames
          /\ chunk_stop_warning' = (chunk_stop_warning \/ s.warning)
    /\ frames_left' = frames_left - 1
    /\ UNCHANGED <<video, pc, chunk_features, results, audio_loaded>>
    /\ UNCHANGED evalVars
    /\ UNCHANGED laneVars
    /\ UNCHANGED departureVars
    /\ UNCHANGED serverVars
    /\ UNCHANGED monitorVars
    /\ UNCHANGED configVars
    /\ UNCHANGED yoloVars

\* a sampled frame without boxes, any signal status
ProcessFrame ==
    \E left \in BOOLEAN, right \in BOOLEAN :
        ProcessFrameWith(left, right, <<>>)

\* the tail of the chunk loop taken while one sampled frame is still
\* unprocessed
FinishChunk_before_last_frame ==
    /\ pc = "frames"
    /\ frames_left <= 1
    /\ LET f == finished_features(chunk_features, chunk_l_counts,
                                  chunk_r_counts, chunk_stop_warning,
                                  tailgating_frames)
       IN /\ EvaluateCall(f)
          /\ results' = Append(results, ChunkResult(chunk_id, scenario_id', f))
    /\ chunk_id' = chunk_id + 1
    /\ frame_log' = <<>>
    /\ pc' = "read"
    /\ UNCHANGED <<video, chunk_features, frames_left, chunk_l_counts,
                   chunk_r_counts, chunk_stop_warning, audio_loaded>>
    /\ UNCHANGED counterVars
    /\ UNCHANGED ebsVars
    /\ UNCHANGED laneVars
    /\ UNCHANGED departureVars
    /\ UNCHANGED serverVars
    /\ UNCHANGED monitorVars
    /\ UNCHANGED configVars
    /\ UNCHANGED yoloVars

\* process_video, the tail of the chunk loop: the chunk-level signals, the
\* evaluation, the result, the next chunk id
FinishChunk ==
    /\ pc = "frames"
    /\ frames_left = 0
    /\ LET f == finished_features(chunk_features, chunk_l_counts,
                                  chunk_r_counts, chunk_stop_warning,
                                  tailgating_frames)
       IN /\ EvaluateCall(f)
          /\ results' = Append(results, ChunkResult(chunk_id, scenario_id', f))
    /\ chunk_id' = chunk_id + 1
    /\ frame_log' = <<>>
    /\ pc' = "read"
    /\ UNCHANGED <<video, chunk_features, frames_left, chunk_l_counts,
                   chunk_r_counts, chunk_stop_warning, audio_loaded>>
    /\ UNCHANGED counterVars
    /\ UNCHANGED ebsVars
    /\ UNCHANGED laneVars
    /\ UNCHANGED departureVars
    /\ UNCHANGED serverVars
    /\ UNCHANGED monitorVars
    /\ UNCHANGED configVars
    /\ UNCHANGED yoloVars

\* process_video, leaving the chunk loop when no frame is left
EndVideo ==
    /\ pc = "read"
    /\ pc' = "returned"
    /\ UNCHANGED <<video, chunk_features, frames_left, chunk_l_counts,
                   chunk_r_counts, frame_log, results, chunk_stop_warning,
                   audio_loaded>>
    /\ UNCHANGED counterVars
    /\ UNCHANGED evalVars
    /\ UNCHANGED ebsVars
    /\ UNCHANGED laneVars
    /\ UNCHANGED departureVars
    /\ UNCHANGED serverVars
    /\ UNCHANGED monitorVars
    /\ UNCHANGED configVars
    /\ UNCHANGED yoloVars

\* main(), the next iteration of `for video in args.videos`: the same
\* engine processes the next video, process_video loads its audio track
\* and sets chunk_id and results
NextVideoWith(loaded) ==
    /\ pc = "returned"
    /\ video < Len(Videos)
    /\ video' = video + 1
    /\ audio_loaded' = loaded
    /\ chunk_id' = 1
    /\ results' = <<>>
    /\ pc' = "read"
    /\ UNCHANGED <<chunk_features, frames_left, chunk_l_counts,
                   chunk_r_counts, frame_log, chunk_stop_warning>>
    /\ UNCHANGED counterVars
    /\ UNCHANGED <<state, features, scenario_id, message, off_after_change>>
    /\ UNCHANGED ebsVars
    /\ UNCHANGED laneVars
    /\ UNCHANGED departureVars
    /\ UNCHANGED serverVars
    /\ UNCHANGED monitorVars
    /\ UNCHANGED configVars
    /\ UNCHANGED yoloVars

\* the next video, with an audio track that librosa.load reads
NextVideo == NextVideoWith(TRUE)

EngineNext ==
    \/ StartChunk
    \/ ProcessFrame
    \/ FinishChunk
    \/ EndVideo
    \/ NextVideo

EngineSpec == Init /\ [][EngineNext]_vars

\* The boxes of a frame of the video that shows an approaching vehicle:
\* track 1 stays in the ego lane, at 3 m or at 0 m, and keeps a distance
\* for at least SustainDwell frames.
SustainObjects(hist) ==
    { <<Vehicle(1, d, 0)>> : d \in
        { x \in Distances :
            \/ 1 \notin DOMAIN hist
            \/ x = hist[1][Len(hist[1])][2]
            \/ /\ Len(hist[1]) >= SustainDwell
               /\ \A i \in 1 .. SustainDwell - 1 :
                    hist[1][Len(hist[1]) - i][2] = hist[1][Len(hist[1])][2] } }

\* a pedestrian box 2 m ahead
ClosePedestrian ==
    [class_name |-> "pedestrian", track_id |-> 2,
     distance_forward_m |-> 20, distance_lateral_m |-> 0]

\* The boxes of a frame of the video that shows close vehicles: none, a car
\* 2 m ahead in the ego lane, a car 2 m ahead and 2.5 m to the side, a
\* pedestrian 2 m ahead.
TailgateObjects ==
    {<<>>, <<Vehicle(1, 20, 0)>>, <<Vehicle(1, 20, 25)>>,
     <<ClosePedestrian>>}

\* the head of the chunk loop of a video without sound events and without
\* lane changes, up to MaxSustainChunks chunks
StartSustainChunk ==
    /\ chunk_id <= MaxSustainChunks
    /\ StartChunkWith("other", FALSE)

\* the same, up to MaxTailgateChunks chunks
StartTailgateChunk ==
    /\ chunk_id <= MaxTailgateChunks
    /\ StartChunkWith("other", FALSE)

\* a sampled frame of the approaching vehicle, both signals off
SustainFrame ==
    \E objs \in SustainObjects(history) : ProcessFrameWith(FALSE, FALSE, objs)

\* a sampled frame of the close vehicles, both signals off
TailgateFrame ==
    \E objs \in TailgateObjects : ProcessFrameWith(FALSE, FALSE, objs)

SustainNext ==
    \/ StartSustainChunk
    \/ SustainFrame
    \/ FinishChunk

SustainSpec == Init /\ [][SustainNext]_vars

TailgateNext ==
    \/ StartTailgateChunk
    \/ TailgateFrame
    \/ FinishChunk

TailgateSpec == Init /\ [][TailgateNext]_vars

\* process_video on videos whose audio track may fail to load
AudioInit ==
    /\ state = ScenarioState
    /\ chunk_id = 1
    /\ features = ChunkFeatures(0)
    /\ scenario_id = 0
    /\ message = NORMAL_MESSAGE
    /\ off_after_change = FALSE
    /\ EbsInit
    /\ EngineInit
    /\ audio_loaded \in BOOLEAN
    /\ LaneIdle
    /\ DepartureInit
    /\ ServerIdle
    /\ MonitorIdle
    /\ ConfigIdle
    /\ YoloIdle

\* a sampled frame without boxes, both signals off
QuietFrame == ProcessFrameWith(FALSE, FALSE, <<>>)

\* the next video, whether librosa.load reads its audio track or raises
NextVideoAnyAudio == \E loaded \in BOOLEAN : NextVideoWith(loaded)

AudioNext ==
    \/ StartChunk
    \/ QuietFrame
    \/ FinishChunk
    \/ EndVideo
    \/ NextVideoAnyAudio

AudioSpec == AudioInit /\ [][AudioNext]_vars

---------------------------------------------------------------------------
(* main() with the values of the command line                              *)

\* the command lines: each of the five options at its default or at 0
CommandLines ==
    [signal_threshold : {0, DefaultArgs.signal_threshold},
     tailgating_frames : {0, DefaultArgs.tailgating_frames},
     wiper_repeat_window : {0, DefaultArgs.wiper_repeat_window},
     sampled_frames : {0, DefaultArgs.sampled_frames},
     chunk_seconds : {0, DefaultArgs.chunk_seconds}]

\* cap.get(cv2.CAP_PROP_FPS) or 30.0
VideoFps == 30

Min(a, b) == IF a <= b THEN a ELSE b

\* frames_per_chunk = max(1, int(fps * self.args.chunk_seconds))
frames_per_chunk(a) == Max(1, VideoFps * a.chunk_seconds)

\* _sample_frames: count = min(len(frames), self.args.sampled_frames), for
\* a chunk that has all its frames
sampled_count(a) == Min(frames_per_chunk(a), a.sampled_frames)

\* main() from parse_args to the loop over the videos: the region of
\* interest tuples, the class names, the output directory and the engine;
\* no statement tests a value of args
Main ==
    /\ main_pc = "parse_args"
    /\ main_pc' = "videos"
    /\ UNCHANGED <<args, evaluated_chunks, args_features>>
    /\ UNCHANGED evalVars
    /\ UNCHANGED ebsVars
    /\ UNCHANGED engineVars
    /\ UNCHANGED laneVars
    /\ UNCHANGED departureVars
    /\ UNCHANGED serverVars
    /\ UNCHANGED monitorVars
    /\ UNCHANGED yoloVars

\* one chunk of process_video under args: the sampled frames give the
\* signal counts and the tailgating counter, the tail of the loop compares
\* them with args.signal_threshold and args.tailgating_frames and the chunk
\* is evaluated
ConfiguredChunk ==
    /\ main_pc = "videos"
    /\ evaluated_chunks < MaxConfigChunks
    /\ \E l_counts \in 0 .. sampled_count(args),
          r_counts \in 0 .. sampled_count(args),
          close_frames \in 0 .. sampled_count(args) :
         args_features' =
             [left_signal_on |-> l_counts >= args.signal_threshold,
              right_signal_on |-> r_counts >= args.signal_threshold,
              hazard_on |-> /\ l_counts >= args.signal_threshold
                            /\ r_counts >= args.signal_threshold,
              tailgating |-> close_frames >= args.tailgating_frames]
    /\ evaluated_chunks' = evaluated_chunks + 1
    /\ UNCHANGED <<args, main_pc>>
    /\ UNCHANGED evalVars
    /\ UNCHANGED ebsVars
    /\ UNCHANGED engineVars
    /\ UNCHANGED laneVars
    /\ UNCHANGED departureVars
    /\ UNCHANGED serverVars
    /\ UNCHANGED monitorVars
    /\ UNCHANGED yoloVars

\* the same chunk when no frame is sampled and self.yolo.track, given the
\* empty list, raises: whether it does is the detector library's choice, so
\* both this step and ConfiguredChunk are possible then
TrackRaises ==
    /\ main_pc = "videos"
    /\ sampled_count(args) = 0
    /\ main_pc' = "failed"
    /\ UNCHANGED <<args, evaluated_chunks, args_features>>
    /\ UNCHANGED evalVars
    /\ UNCHANGED ebsVars
    /\ UNCHANGED engineVars
    /\ UNCHANGED laneVars
    /\ UNCHANGED departureVars
    /\ UNCHANGED serverVars
    /\ UNCHANGED monitorVars
    /\ UNCHANGED yoloVars

ConfigInit ==
    /\ MainInit
    /\ LaneIdle
    /\ DepartureInit
    /\ ServerIdle
    /\ MonitorIdle
    /\ args \in CommandLines
    /\ main_pc = "parse_args"
    /\ evaluated_chunks = 0
    /\ args_features = NoArgsFeatures
    /\ YoloIdle

ConfigNext ==
    \/ Main
    \/ ConfiguredChunk
    \/ TrackRaises

ConfigSpec == ConfigInit /\ [][ConfigNext]_vars

---------------------------------------------------------------------------
(* The lane specifications                                                 *)

LaneTrackInit ==
    /\ MainInit
    /\ LaneInit
    /\ DepartureInit
    /\ ServerIdle
    /\ MonitorIdle
    /\ ConfigIdle
    /\ YoloIdle

\* the tracker on a scene that does not move, with detections and misses
LaneAgeNext == TrackFrame

LaneAgeSpec == LaneTrackInit /\ [][LaneAgeNext]_vars

\* the tracker on a scene detected in every frame, displaced at most
\* MaxJumps times
LaneChangeNext ==
    \/ SteadyFrame
    \/ JumpFrame

LaneChangeSpec == LaneTrackInit /\ [][LaneChangeNext]_vars

\* process_video_final on a scene with detections and misses that is
\* displaced at most MaxJumps times
LaneGapNext ==
    \/ TrackFrame
    \/ JumpFrame

LaneGapSpec == Init /\ [][LaneGapNext]_vars

\* detect_lane_change as a function of its arguments
DetectInit ==
    /\ MainInit
    /\ DetectInputs
    /\ DepartureInit
    /\ ServerIdle
    /\ MonitorIdle
    /\ ConfigIdle
    /\ YoloIdle

DetectNext == DetectOnce

DetectSpec == DetectInit /\ [][DetectNext]_vars

\* detect_lane_departure called frame after frame
DepartureNext == DepartureCall

DepartureSpec == Init /\ [][DepartureNext]_vars

\* test_video_by_chunks, chunk after chunk
YoloNext ==
    \/ YoloStartChunk
    \/ YoloFrame
    \/ YoloFinishChunk

YoloSpec == Init /\ [][YoloNext]_vars

\* the lane monitor called chunk after chunk
MonitorNext == MonitorProcess

MonitorSpec == Init /\ [][MonitorNext]_vars

\* the server answering request after request
ServerNext == AnalyzeScenario

ServerSpec == Init /\ [][ServerNext]_vars

\* the server from its start, answering audio and scenario requests
ApiNext ==
    \/ load_models
    \/ AnalyzeAudio
    \/ ServedScenario

ApiSpec == Init /\ [][ApiNext]_vars

\* process_video_with_lane_departure, frame after frame
VideoDepartureNext == DepartureFrame

VideoDepartureSpec == Init /\ [][VideoDepartureNext]_vars

\* Every state the scenario specification reaches is one the single-call
\* specification starts from (for the chunk ids both cover).
ReachableStatesCovered ==
    state \in ScenarioStatesAt(chunk_id)

---------------------------------------------------------------------------
(* Properties of ScenarioEvaluator                                         *)

\* the chunk features are those of a chunk with the blinker on and neither
\* horn nor wiper
BlinkerOnQuiet(f) == blinker_used(f) /\ ~f.horn /\ ~f.wiper_audio

\* C1: a lane change made with a blinker at chunk 5, the blinker still on
\* at chunks 6 and 7 (no horn, no wiper): evaluate returns scenario 4 at
\* chunk 7 and does not return it at chunk 6.
C1_StuckAtChunk7NotChunk6 ==
    [][ ( /\ features.chunk_id = 5
          /\ features.lane_change
          /\ BlinkerOnQuiet(features)
          /\ features'.chunk_id = 6
          /\ ~features'.lane_change
          /\ BlinkerOnQuiet(features') )
        => /\ scenario_id' # 4
           /\ \A f7 \in ChunkInputs(7) :
                (~f7.lane_change /\ BlinkerOnQuiet(f7))
                    => evaluate(state', f7).scenario_id = 4 ]_vars

\* C2: once a chunk without any blinker has followed a lane change made
\* with a blinker, evaluate never returns scenario 4 for that lane change.
C2_NoStuckAfterBlinkerOff ==
    off_after_change => scenario_id # 4

\* C3: for one lane change made with a blinker that stays on, scenario 4 is
\* returned in one chunk only, never in two consecutive chunks.
C3_StuckFlaggedOnce ==
    [][ ( /\ scenario_id = 4
          /\ features'.chunk_id = features.chunk_id + 1
          /\ ~features'.lane_change
          /\ blinker_used(features') )
        => scenario_id' # 4 ]_vars

\* the call evaluate(features) of the single-call specification has been made
Evaluated == features.chunk_id = chunk_id

\* C8: with horn, tailgating and sudden_stop all true, evaluate returns the
\* tailgating-with-horn event (11), not the sudden-stop event (10), whatever
\* the other features and the stored state are.
C8_TailgatingBeforeSuddenStop ==
    (Evaluated /\ features.horn /\ features.tailgating /\ features.sudden_stop)
        => /\ scenario_id = 11
           /\ message = SCENARIO_MESSAGES[11]

C8_Witness ==
    /\ Evaluated
    /\ features.horn /\ features.tailgating /\ features.sudden_stop
    /\ features.pedestrian_present /\ features.wiper_audio /\ features.hazard_on
    /\ state.last_lane_change_chunk # None
    /\ scenario_id = 11

\* The rule table as the documentation states it: rule i of the fixed order
\* matches features f on the stored state s.
RuleMatches(i, s, f) ==
    LET changed == f.lane_change
        lc == IF changed THEN f.chunk_id ELSE s.last_lane_change_chunk
        used == IF changed THEN blinker_used(f)
                ELSE s.last_lane_change_used_blinker
        still == IF changed THEN 0 ELSE s.blinker_still_on_chunks
    IN CASE i = 1 -> f.horn /\ f.sudden_stop /\ ~f.tailgating
         [] i = 2 -> f.horn /\ f.tailgating
         [] i = 3 -> f.horn /\ f.pedestrian_present
         [] i = 4 -> f.horn /\ f.crosswalk_sign_present
                     /\ ~f.pedestrian_present /\ f.right_signal_on
         [] i = 5 -> f.lane_change /\ ~blinker_used(f)
         [] i = 6 -> /\ lc # None
                     /\ used
                     /\ f.chunk_id - lc <= 2
                     /\ blinker_used(f)
                     /\ still + 1 >= 2

RuleId == <<10, 11, 9, 8, 5, 4>>

MatchingRules(s, f) == { i \in 1 .. 6 : RuleMatches(i, s, f) }

FirstMatch(s, f) ==
    CHOOSE i \in MatchingRules(s, f) : \A j \in MatchingRules(s, f) : i <= j

\* C9: evaluate returns the id of the first rule of the fixed order that
\* matches; when none matches and there is no wiper+hazard it returns 0 with
\* the normal-driving message.
C9_FirstMatchingRuleWins ==
    [][ Evaluated' =>
          IF MatchingRules(state, features') # {}
          THEN /\ scenario_id' = RuleId[FirstMatch(state, features')]
               /\ message' = SCENARIO_MESSAGES[scenario_id']
          ELSE ~(features'.wiper_audio /\ features'.hazard_on)
                 => /\ scenario_id' = 0
                    /\ message' = NORMAL_MESSAGE ]_vars

C9_Witness ==
    /\ Evaluated
    /\ features.horn /\ features.tailgating /\ features.pedestrian_present
    /\ ~features.sudden_stop
    /\ features.lane_change /\ ~blinker_used(features)
    /\ scenario_id = 11

\* rules 1-4 of the table, which precede the lane-change rule
HigherRuleMatches(f) ==
    \/ f.horn /\ f.sudden_stop /\ ~f.tailgating
    \/ f.horn /\ f.tailgating
    \/ f.horn /\ f.pedestrian_present
    \/ f.horn /\ f.crosswalk_sign_present /\ ~f.pedestrian_present
       /\ f.right_signal_on

\* C10: for a chunk with a lane change in which no higher-priority rule
\* matches, evaluate returns 5 exactly when no blinker was used in that
\* chunk or in the chunk immediately before it.
C10_UnsignaledLaneChange ==
    [][ ( /\ features'.chunk_id = features.chunk_id + 1
          /\ features'.lane_change
          /\ ~HigherRuleMatches(features') )
        => ( scenario_id' = 5
               <=> (~blinker_used(features') /\ ~blinker_used(features)) ) ]_vars

\* the chunk features carry wiper audio together with the hazard lights
WiperHazard(f) == f.wiper_audio /\ f.hazard_on

\* C11: in a chunk with wiper audio and hazard lights in which rules 1-6
\* match nothing, evaluate returns 7 when there was no earlier wiper+hazard
\* chunk or the last one lies more than wiper_repeat_window chunks back, and
\* 11 when it lies within the window; every wiper+hazard chunk becomes the
\* last occurrence, and no other chunk changes it.
C11_WiperRepeatWindow ==
    [][ /\ WiperHazard(features')
           => state'.last_wiper_hazard_chunk = features'.chunk_id
        /\ ~WiperHazard(features')
           => state'.last_wiper_hazard_chunk = state.last_wiper_hazard_chunk
        /\ (WiperHazard(features') /\ MatchingRules(state, features') = {})
           => scenario_id' =
                IF \/ state.last_wiper_hazard_chunk = None
                   \/ features'.chunk_id - state.last_wiper_hazard_chunk
                        > wiper_repeat_window
                THEN 7 ELSE 11 ]_vars

\* a repeated wiper+hazard chunk reported as 11 without horn
C11_Witness ==
    /\ WiperHazard(features)
    /\ ~features.horn
    /\ features.chunk_id >= 4
    /\ scenario_id = 11
    /\ state.last_wiper_hazard_chunk = features.chunk_id

\* C12: when rules 1-6 produced an id, evaluate returns that id unchanged
\* although wiper audio and hazard lights are present, and the occurrence is
\* still recorded in last_wiper_hazard_chunk.
C12_WiperOnlyOverridesNoEvent ==
    [][ ( /\ Evaluated'
          /\ WiperHazard(features')
          /\ MatchingRules(state, features') # {} )
        => /\ scenario_id' = RuleId[FirstMatch(state, features')]
           /\ scenario_id' \notin {0, 7}
           /\ state'.last_wiper_hazard_chunk = features'.chunk_id ]_vars

\* a wiper+hazard chunk inside the repeat window that reports the
\* pedestrian event and is recorded
C12_Witness ==
    /\ Evaluated
    /\ WiperHazard(features)
    /\ features.horn /\ features.pedestrian_present /\ ~features.tailgating
    /\ ~features.sudden_stop
    /\ scenario_id = 9
    /\ state.last_wiper_hazard_chunk = chunk_id

---------------------------------------------------------------------------
(* Properties of ScenarioEngine.process_video                              *)

\* the step is the tail of the chunk loop: evaluate and results.append
ChunkFinished == pc = "frames" /\ pc' = "read"

\* C13: every video starts from a fresh ScenarioState: the first chunk of a
\* video gets the scenario id a new evaluator returns for its features,
\* whatever the chunks of the videos processed before were.
C13_FreshStatePerVideo ==
    [][ (ChunkFinished /\ chunk_id = 1)
        => /\ state = ScenarioState
           /\ scenario_id' = evaluate(ScenarioState, features').scenario_id ]_vars

\* the number of frames of the log classified ON for side i (1 left, 2 right)
OnFrames(log, i) == Cardinality({ k \in DOMAIN log : log[k][i] })

\* C14: process_video emits one ChunkResult per chunk in processing order,
\* with chunk ids 1, 2, 3, ... without gap or repeat, and appends the result
\* of a chunk only after all of its sampled frames have been processed.
C14_OneResultPerChunk ==
    [][ /\ \A i \in DOMAIN results' : results'[i].chunk_id = i
        /\ Len(results') = chunk_id' - 1
        /\ results' # results
           => \/ /\ results' = <<>>
                 /\ pc = "returned"
              \/ /\ Len(results') = Len(results) + 1
                 /\ SubSeq(results', 1, Len(results)) = results
                 /\ results'[Len(results')].chunk_id = chunk_id
                 /\ results'[Len(results')].scenario_id = scenario_id'
                 /\ frames_left = 0
                 /\ Len(frame_log) = SampledFrames ]_vars

\* the second chunk of the second video has its result
C14_Witness ==
    /\ video = 2
    /\ Len(results) = 2
    /\ results[2].chunk_id = 2
    /\ pc = "read"

\* C20: the chunk-level left (right) signal is ON exactly when the number
\* of sampled frames of the chunk classified ON for that side is at least
\* signal_threshold; the counts start from 0 in every chunk; hazard_on is
\* true exactly when both chunk-level signals are ON.
C20_SignalDebounce ==
    [][ /\ (pc = "read" /\ pc' = "frames")
           => chunk_l_counts' = 0 /\ chunk_r_counts' = 0
        /\ pc' = "frames"
           => /\ chunk_l_counts' = OnFrames(frame_log', 1)
              /\ chunk_r_counts' = OnFrames(frame_log', 2)
        /\ ChunkFinished
           => /\ features'.left_signal_on
                   <=> OnFrames(frame_log, 1) >= signal_threshold
              /\ features'.right_signal_on
                   <=> OnFrames(frame_log, 2) >= signal_threshold
              /\ features'.hazard_on
                   <=> (features'.left_signal_on /\ features'.right_signal_on)
              /\ results'[Len(results')].left_signal_on
                   = features'.left_signal_on
              /\ results'[Len(results')].right_signal_on
                   = features'.right_signal_on ]_vars

\* a chunk with 3 ON frames on the left and 2 on the right: left ON, right
\* OFF, no hazard, in the second chunk of a video whose first chunk had both
\* signals ON
C20_Witness ==
    /\ pc = "read"
    /\ Len(results) = 2
    /\ results[1].left_signal_on /\ results[1].right_signal_on
    /\ chunk_l_counts = 3 /\ chunk_r_counts = 2
    /\ features.chunk_id = 2
    /\ features.left_signal_on
    /\ ~features.right_signal_on
    /\ ~features.hazard_on

---------------------------------------------------------------------------
(* Properties of LaneTracker and detect_lane_change                        *)

\* C15: for each side, an estimate is kept through a miss as long as the
\* age it brings is at most persistence_frames (still present at age =
\* persistence_frames) and is cleared by the miss that brings the age to
\* persistence_frames + 1; no estimate is ever older than persistence_frames.
C15_PersistenceBoundary ==
    [][ /\ (left_x # NoLane /\ detected_left' = NoLane)
           => /\ left_age' = left_age + 1
              /\ left_age' <= persistence_frames => left_x' = left_x
              /\ left_age' = persistence_frames + 1 => left_x' = NoLane
        /\ (right_x # NoLane /\ detected_right' = NoLane)
           => /\ right_age' = right_age + 1
              /\ right_age' <= persistence_frames => right_x' = right_x
              /\ right_age' = persistence_frames + 1 => right_x' = NoLane
        /\ left_x' # NoLane => left_age' <= persistence_frames
        /\ right_x' # NoLane => right_age' <= persistence_frames ]_vars

\* the left estimate still present at age persistence_frames while the
\* right one has just been cleared at persistence_frames + 1
C15_Witness ==
    /\ left_age = persistence_frames
    /\ left_x # NoLane
    /\ right_age = persistence_frames + 1
    /\ right_x = NoLane
    /\ detected_left = NoLane
    /\ detected_right = NoLane

\* C16: after every update, for each side, the age is 0 exactly when a
\* detection for that side was passed in that update, and otherwise it is
\* the number of consecutive updates without a detection for that side.
C16_AgeCountsMisses ==
    [][ /\ left_age' = 0 <=> detected_left' # NoLane
        /\ right_age' = 0 <=> detected_right' # NoLane
        /\ left_age' = left_missed'
        /\ right_age' = right_missed' ]_vars

\* a left detection in the update that is the third in a row without a
\* right detection
C16_Witness ==
    /\ left_age = 0
    /\ detected_left # NoLane
    /\ left_x = detected_left
    /\ right_age = 3
    /\ right_missed = 3
    /\ detected_right = NoLane
    /\ right_x # NoLane

C18_OneShotLaneChange ==
    (smooth_alpha = 9 /\ threshold = Px(20) /\ jumps = 1) => changes = 1

---------------------------------------------------------------------------
(* Properties of detect_lane_departure                                     *)

\* C19: ten consecutive calls with vehicle_x <= left_lane_x, starting from
\* 'normal' and feeding each returned state into the next call, return
\* is_departing on exactly one call, the first; the same holds for ten
\* calls with vehicle_x >= right_lane_x.
C19_DepartureEdgeTriggered ==
    (calls = 10 /\ (all_left \/ all_right))
        => /\ events = 1
           /\ first_event

---------------------------------------------------------------------------
(* Properties of EmergencyBrakingSystem                                    *)

\* the last check() call emitted a warning for track t
Emitted(t) == t \in DOMAIN last_warning /\ last_warning[t] = frame_counter

\* no object of the last check() call carries track id t
NotInFrame(t) ==
    \A i \in DOMAIN current_objects : current_objects[i].track_id # t

\* track t raised a candidate in the last check() call: at least 10
\* samples, closing by 2.0 m or more over the last 5 samples, now within 1.0 m
Candidate(t) ==
    /\ t \in DOMAIN history
    /\ Len(history[t]) >= 10
    /\ history[t][Len(history[t]) - 4][2] - history[t][Len(history[t])][2] >= 20
    /\ history[t][Len(history[t])][2] <= 10

\* C4: two warnings emitted for the same track are never fewer than 20
\* frames apart: a 20-frame window starting at an emission holds no second
\* emission, however many of its frames raise a candidate.
C4_OneWarningPerCooldownWindow ==
    [][ \A t \in TrackIds :
          (Emitted(t)' /\ t \in DOMAIN last_warning)
              => frame_counter' - last_warning[t] >= 20 ]_vars

\* a second warning for a track that stayed in the frame all the time
C4_Witness ==
    /\ Emitted(1)
    /\ 1 \in DOMAIN prev_warning
    /\ Len(history[1]) = 16

\* C5 (as stated): a candidate is emitted exactly when at least 20 frames
\* have elapsed since the track's last emitted warning.
C5_EmittedAfterTwentyFrames ==
    [][ \A t \in TrackIds :
          (Candidate(t)' /\ t \in DOMAIN last_warning)
              => (Emitted(t)' <=> frame_counter' - last_warning[t] >= 20) ]_vars

\* C5 (amended): a candidate is emitted exactly when more than 20 frames
\* have elapsed since the track's last emitted warning (or the track has
\* no earlier warning); one raised 20 frames after it is suppressed.
C5_EmittedAfterMoreThanTwentyFrames ==
    [][ \A t \in TrackIds :
          Candidate(t)'
              => ( Emitted(t)'
                     <=> \/ t \notin DOMAIN last_warning
                         \/ frame_counter' - last_warning[t] > 20 ) ]_vars

\* a candidate raised exactly 20 frames after the last warning, suppressed
C5_Witness ==
    /\ Candidate(1)
    /\ 1 \in DOMAIN last_warning
    /\ frame_counter - last_warning[1] = 20
    /\ ~is_danger_detected

\* C6: a track that does not appear in a frame has no history after it; a
\* reappearing id starts from the single new sample, and no warning is
\* emitted for a track with fewer than 10 samples since then.
C6_HistoryEviction ==
    [][ \A t \in TrackIds :
          /\ NotInFrame(t)' => t \notin DOMAIN history'
          /\ (t \notin DOMAIN history /\ t \in DOMAIN history')
                => /\ Len(history'[t]) = 1
                   /\ history'[t][1][1] = frame_counter'
          /\ Emitted(t)'
                => /\ Len(history'[t]) >= 10
                   /\ \A i \in 1 .. Len(history'[t]) :
                        history'[t][i][1] = frame_counter' - Len(history'[t]) + i
       ]_vars

\* a second warning, emitted on the 10th sample after the track reappeared
C6_Witness ==
    /\ Emitted(1)
    /\ 1 \in DOMAIN prev_warning
    /\ Len(history[1]) = 10

\* C7: a track that does not appear in a frame has no entry in the cooldown
\* table after it.
C7_CooldownPurged ==
    \A t \in TrackIds : NotInFrame(t) => t \notin DOMAIN last_warning


\* a vehicle box of the last check() call carries track id t and fails the
\* same-lane gate, and no box of the call carries t inside the gate
OutsideGate(t) ==
    /\ \E i \in DOMAIN current_objects :
         /\ current_objects[i].track_id = t
         /\ current_objects[i].class_name \in vehicle_classes
         /\ Abs(current_objects[i].distance_lateral_m) > 18
    /\ \A i \in DOMAIN current_objects :
         current_objects[i].track_id = t
            => Abs(current_objects[i].distance_lateral_m) > 18

\* C38: a vehicle that is in the frame but fails the same-lane gate has no
\* history after the call; the samples a track has are those of the latest
\* consecutive frames, all inside the gate, and a warning needs 10 of them.
C38_GateFailureIsAbsence ==
    \A t \in TrackIds :
        /\ OutsideGate(t) => t \notin DOMAIN history
        /\ t \in DOMAIN history
              => \A i \in 1 .. Len(history[t]) :
                    history[t][i][1] = frame_counter - Len(history[t]) + i
        /\ Emitted(t) => Len(history[t]) >= 10

\* track 1 warned in one frame and failed the gate in the next, which left
\* it without history
C38_Witness ==
    /\ OutsideGate(1)
    /\ 1 \in DOMAIN last_warning
    /\ last_warning[1] = frame_counter - 1
    /\ 1 \notin DOMAIN history

\* a side of the tracker has no estimate
NoEstimate == left_x = NoLane \/ right_x = NoLane

\* C39: a frame that leaves a side without estimate reports no change and
\* keeps prev_center; the first frame with both sides after such frames is
\* compared against that center, the one from before the gap.
C39_GapKeepsCenter ==
    [][ /\ NoEstimate' => /\ ~is_changing'
                          /\ direction' = "None"
                          /\ prev_center' = prev_center
        /\ (NoEstimate /\ ~NoEstimate' /\ prev_center # NoLane)
              => /\ is_changing'
                    = (Abs((left_x' + right_x') \div 2 - prev_center)
                          > threshold)
                 /\ prev_center' = (left_x' + right_x') \div 2
      ]_vars

\* the frame after a gap: the left boundary, which had no estimate, is
\* detected at its displaced position and the frame is reported as a change
\* against the center from before the gap
C39_Witness ==
    /\ jumps = 1
    /\ is_changing
    /\ changes = 1
    /\ left_x = detected_left
    /\ left_x # NoLane
    /\ right_x # NoLane
    /\ right_age = 0

\* C22: the samples stored for a track id are strictly increasing in frame
\* index, also when a frame lists the same id more than once.
C22_StrictlyIncreasingFrames ==
    \A t \in DOMAIN history :
        \A i \in 1 .. Len(history[t]) - 1 :
            history[t][i][1] < history[t][i + 1][1]

\* C23: after every check() no stored sample is more than 15 frames behind
\* the frame counter, and a track seen once per frame holds at most 16
\* samples.
C23_WindowOfFifteenFrames ==
    \A t \in DOMAIN history :
        /\ \A i \in 1 .. Len(history[t]) :
             frame_counter - history[t][i][1] <= 15
        /\ Len(history[t]) <= 16

\* track 1 has been followed for more than 16 frames and its history holds
\* the last 16 of them
C23_Witness ==
    /\ frame_counter > 20
    /\ 1 \in DOMAIN history
    /\ Len(history[1]) = 16
    /\ history[1][1][1] = frame_counter - 15

\* C24: a warning is emitted only for a track with at least 10 samples, and
\* not before the track has been seen in 10 frames since it appeared.
C24_NoEarlyWarning ==
    \A t \in DOMAIN history :
        Emitted(t)
            => /\ Len(history[t]) >= 10
               /\ Cardinality({ history[t][i][1] :
                                  i \in 1 .. Len(history[t]) }) >= 10

\* C25: a track with at least 10 samples and no cooldown in the way is
\* warned about exactly when (velocity_recent >= 2.0 m and the distance is
\* at or below 0 m) or velocity_recent >= 2.5 m.
C25_CandidateCondition ==
    [][ \A t \in TrackIds :
          ( /\ t \in DOMAIN history'
            /\ Len(history'[t]) >= 10
            /\ cooldown_over(frame_counter', DictGet(last_warning, t, -999)) )
          => LET h == history'[t]
                 dist == h[Len(h)][2]
                 velocity_recent == h[Len(h) - 4][2] - dist
             IN Emitted(t)' <=> \/ velocity_recent >= 20 /\ dist <= 0
                                \/ velocity_recent >= 25
       ]_vars

\* C29: every evaluate() call for a chunk in which no blinker is observed
\* leaves blinker_still_on_chunks at 0, whichever rule gives the id.
C29_BlinkerCountReset ==
    [][ ~blinker_used(features') => state'.blinker_still_on_chunks = 0 ]_vars

\* C31: check() on an empty list, or on a list without an object of a
\* vehicle class, returns False, leaves no track with a history and
\* advances the frame counter by one.
C31_EmptyFrame ==
    [][ ( /\ frame_counter' # frame_counter
          /\ \A i \in DOMAIN current_objects' :
               current_objects'[i].class_name \notin vehicle_classes )
        => /\ ~is_danger_detected'
           /\ history' = <<>>
           /\ frame_counter' = frame_counter + 1
           /\ last_warning' = last_warning ]_vars

\* check([]) has been called on the frame after a warning for track 1,
\* whose history held 10 samples or more, and no history is left
C31_Witness ==
    /\ current_objects = <<>>
    /\ 1 \in DOMAIN last_warning
    /\ frame_counter = last_warning[1] + 1
    /\ history = <<>>
    /\ ~is_danger_detected

\* what evaluate reports for a chunk with horn and tailgating
HornTailgatingReport ==
    LET r == evaluate(ScenarioState,
                      [ChunkFeatures(1) EXCEPT !.horn = TRUE,
                                               !.tailgating = TRUE])
    IN <<r.scenario_id, r.message>>

\* C35: the (scenario_id, message) pair identifies the rule: a wiper+hazard
\* chunk decided by the wiper rule, first or repeated, is never reported
\* with the pair of the horn+tailgating rule.
C35_IdsIdentifyRules ==
    [][ (WiperHazard(features') /\ MatchingRules(state, features') = {})
        => <<scenario_id', message'>> # HornTailgatingReport ]_vars

---------------------------------------------------------------------------
(* Properties of the analysis server                                       *)

\* C21: every request with horn and pedestrian true and sudden_stop false
\* is answered with success and scenario_id 9, whatever its other fields,
\* and a request repeated after any earlier requests gets the answer it got
\* before.
C21_HornPedestrianIsNine ==
    [][/\ (request'.horn /\ request'.pedestrian /\ ~request'.sudden_stop)
            => (response'.success /\ response'.scenario_id = 9)
       /\ (response.success /\ request' = request)
            => response' = response]_vars

\* a horn-and-pedestrian request that also satisfies the lane-change rule
\* and the wiper rule, and reports tailgating, has been answered with 9
C21_Witness ==
    /\ request.horn /\ request.pedestrian /\ ~request.sudden_stop
    /\ request.lane_change /\ ~request.blinker
    /\ request.wiper /\ request.left_signal /\ request.right_signal
    /\ request.tailgating
    /\ response.success
    /\ response.scenario_id = 9

\* C32: when loading the audio track of a video fails, process_video does
\* not return to its caller and appends no ChunkResult for that video.
C32_AudioFailurePropagates ==
    ~audio_loaded => (pc # "returned" /\ results = <<>>)

\* C33: a chunk is evaluated only under a configuration whose
\* signal_threshold, tailgating_frames, wiper_repeat_window, sampled_frames
\* and chunk_seconds are all positive.
C33_ConfigurationValidated ==
    evaluated_chunks > 0
        => /\ args.signal_threshold > 0
           /\ args.tailgating_frames > 0
           /\ args.wiper_repeat_window > 0
           /\ args.sampled_frames > 0
           /\ args.chunk_seconds > 0

---------------------------------------------------------------------------
(* Properties of the frame loop of process_video                           *)

\* frame g lies in the 40 frames that start at a frame where check()
\* returned True.  A chunk is shorter than the cooldown, so that of the
\* frames where check() returned True only the last two can precede a frame
\* of the chunk just finished by fewer than 40 frames.
Held(g) ==
    \E t \in DOMAIN last_warning :
        \/ g - last_warning[t] \in 0 .. STOP_SUSTAIN_FRAMES - 1
        \/ /\ t \in DOMAIN prev_warning
           /\ g - prev_warning[t] \in 0 .. STOP_SUSTAIN_FRAMES - 1

\* the tail of the chunk loop has just run
ChunkEvaluated ==
    pc = "read" /\ chunk_id > 1 /\ features.chunk_id = chunk_id - 1

\* C26: the per-frame warning is true exactly on the 40 sampled frames that
\* start at a frame where check() returned True, across chunk boundaries;
\* sudden_stop is true exactly for the chunks that contain such a frame;
\* stop_sustain_frames stays within 0..40.
C26_SustainWindow ==
    /\ stop_sustain_frames \in 0 .. STOP_SUSTAIN_FRAMES
    /\ frame_counter >= 1 => (warning <=> Held(frame_counter))
    /\ ChunkEvaluated
         => (features.sudden_stop
               <=> \E g \in frame_counter - SampledFrames + 1 .. frame_counter :
                     Held(g))

\* a chunk has been finished with sudden_stop true whose last frame, 40 or
\* more frames after the last True of check(), carries no warning
C26_Witness ==
    /\ ChunkEvaluated
    /\ features.sudden_stop
    /\ ~warning
    /\ 1 \in DOMAIN last_warning
    /\ frame_counter - last_warning[1] >= STOP_SUSTAIN_FRAMES

\* C27 as claimed: tailgating is true only if frame_has_close_vehicle was
\* true on at least tailgating_frames consecutive sampled frames.
C27_TailgatingNeedsConsecutiveFrames ==
    features.tailgating => close_run_max >= args_tailgating_frames

\* C27: every sampled frame adds 1 to the counter when its
\* frame_has_close_vehicle is true and otherwise takes 1 off it, not below
\* 0; the counter is never below the current run of consecutive such
\* frames; tailgating of a chunk is true exactly when the counter, carried
\* over from the chunks before, is at least tailgating_frames at its end.
C27_TailgatingCounter ==
    [][ /\ frame_counter' # frame_counter
          => tailgating_frames' =
               IF frame_has_close_vehicle' THEN tailgating_frames + 1
               ELSE IF tailgating_frames > 0 THEN tailgating_frames - 1
               ELSE 0
        /\ close_run' <= tailgating_frames'
        /\ ChunkFinished
          => (features'.tailgating
                <=> tailgating_frames >= args_tailgating_frames)
      ]_vars

\* a chunk has been finished with tailgating true although no 7 frames in
\* a row had a close vehicle
C27_Witness ==
    /\ ChunkEvaluated
    /\ features.tailgating
    /\ close_run_max = args_tailgating_frames - 1
    /\ tailgating_frames >= args_tailgating_frames

\* C28: frame_has_close_vehicle is true only for a frame with a box of a
\* vehicle class inside the lane gate of check() and at most 3 m ahead.
C28_CloseVehicleInLane ==
    frame_has_close_vehicle
        => \E i \in DOMAIN current_objects :
             /\ current_objects[i].class_name \in vehicle_classes
             /\ Abs(current_objects[i].distance_lateral_m) <= 18
             /\ current_objects[i].distance_forward_m <= TAILGATING_DISTANCE_M

---------------------------------------------------------------------------
(* Properties of LaneChangeMonitor                                         *)

\* C30: process reports lane_change exactly when a center is found, a
\* previous center exists and the two differ by strictly more than
\* threshold_px; a shift equal to threshold_px is not a lane change.
C30_ShiftAboveThreshold ==
    monitor_lane_change
        <=> /\ monitor_center # NoCenter
            /\ monitor_before # NoCenter
            /\ Abs(monitor_center - monitor_before) > threshold_px

---------------------------------------------------------------------------
(* The server's rules against ScenarioEvaluator                            *)

\* the ChunkFeatures of chunk 1 that correspond to a request body
FeaturesOf(r) ==
    [ChunkFeatures(1) EXCEPT
        !.horn = r.horn,
        !.blinker_audio = r.blinker,
        !.wiper_audio = r.wiper,
        !.lane_change = r.lane_change,
        !.pedestrian_present = r.pedestrian,
        !.tailgating = r.tailgating,
        !.sudden_stop = r.sudden_stop,
        !.left_signal_on = r.left_signal,
        !.right_signal_on = r.right_signal,
        !.hazard_on = r.left_signal /\ r.right_signal]

\* C34: the endpoint answers every request with the scenario id that
\* evaluate returns, on a fresh ScenarioState, for the corresponding
\* ChunkFeatures.
C34_OnePriorityTable ==
    response.success
        => response.scenario_id
             = evaluate(ScenarioState, FeaturesOf(request)).scenario_id

---------------------------------------------------------------------------
(* Properties of process_video_with_lane_departure                         *)

---------------------------------------------------------------------------
(* Properties of test_video_by_chunks                                      *)

\* C37: every forward distance handed to check is at least 0 and check
\* warns only below 0.0, so that check never returns true, no warning is
\* recorded, stop_sustain_frames stays 0 and is_sudden_stop is false in
\* every chunk.
C37_NoSuddenStop ==
    /\ \A i \in DOMAIN yolo_boxes :
         distance_forward(yolo_boxes[i].by) >= 0
    /\ ~yolo_chunk_stop_warning
    /\ yolo_ebs.last_warning = <<>>
    /\ yolo_stop_sustain_frames = 0
    /\ ~is_sudden_stop

\* track 1, in the lane, has ten samples or more, was 3 m ahead four
\* frames ago and is now on a row behind the own car
C37_Witness ==
    /\ yolo_boxes = <<Box("car", 1, 420, 0)>>
    /\ 1 \in DOMAIN yolo_ebs.history
    /\ Len(yolo_ebs.history[1]) >= 10
    /\ yolo_ebs.history[1][Len(yolo_ebs.history[1]) - 4][2] = 30
    /\ yolo_ebs.history[1][Len(yolo_ebs.history[1])][2] = 0
    /\ ~yolo_chunk_stop_warning

---------------------------------------------------------------------------
(* Properties of POST /api/analyze/audio                                   *)

\* C40: an audio request to a server whose audio model is not loaded is
\* answered with status 503 and detail 'Audio model not loaded'.
C40_AudioModelNotLoaded ==
    (audio_model = NoModel /\ audio_response # NoAudioResponse)
        => /\ audio_response.status_code = 503
           /\ audio_response.detail = "Audio model not loaded"

=============================================================================
